---- MODULE Spec2Model ----
(***************************************************************************)
(* Model of the AppSyncApi construct                                       *)
(* (packages/resources/src/AppSyncApi.ts): the registries of data sources, *)
(* functions and resolvers, the resolver-key normaliser, and the           *)
(* propagation of permissions to the functions behind the data sources.    *)
(*                                                                         *)
(* Strings are sequences of one-character strings, so that splitting,      *)
(* joining and concatenation are computed as the code computes them.       *)
(* Objects used as maps are functions whose DOMAIN is the set of own keys. *)
(***************************************************************************)
EXTENDS Integers, Sequences, FiniteSets, TLC

\* ------------------------------------------------------------------------
\* Bounds of the model
\* ------------------------------------------------------------------------
MaxDataSources == 2   \* explicit data sources registered through addDataSource
MaxResolvers == 2     \* resolver keys in the Resolver Key Index
MaxGrants == 2        \* length of permissionsAttachedForAllFunctions
MaxTargeted == 1      \* targeted grants attached in all
MaxBatch == 2         \* entries in one addDataSources / addResolvers call
MaxKeyLen == 5        \* characters of a resolver key given to the normaliser

\* ------------------------------------------------------------------------
\* Strings
\* ------------------------------------------------------------------------
Whitespace == {" ", "\t"}

\* the value `undefined`, as a handle and as a string-typed value
Undefined == [kind |-> "undefined", scope |-> "", id |-> <<>>]
UndefinedStr == <<"#undefined">>

\* ToPropertyKey: the property name an object is indexed with; indexing with
\* `undefined` reads the property named "undefined"
PropertyKey(k) ==
  IF k = UndefinedStr THEN <<"u", "n", "d", "e", "f", "i", "n", "e", "d">> ELSE k

\* obj[key] for an object used as a map
Get(obj, key) ==
  IF PropertyKey(key) \in DOMAIN obj THEN obj[PropertyKey(key)] ELSE Undefined

\* obj[key] where the values are strings
GetStr(obj, key) ==
  IF PropertyKey(key) \in DOMAIN obj THEN obj[PropertyKey(key)] ELSE UndefinedStr

\* obj[key] = value
Put(obj, key, value) ==
  [k \in DOMAIN obj \cup {key} |-> IF k = key THEN value ELSE obj[k]]

\* s.indexOf(c) with 0 for "not found" and positions counted from 1
IndexOfAny(s, cs) ==
  IF \E i \in 1..Len(s) : s[i] \in cs
  THEN CHOOSE i \in 1..Len(s) : s[i] \in cs /\ \A j \in 1..(i - 1) : s[j] \notin cs
  ELSE 0

\* first position after i that does not hold a character of cs (Len(s)+1 if none)
RunEnd(s, i, cs) ==
  IF \E j \in (i + 1)..Len(s) : s[j] \notin cs
  THEN CHOOSE j \in (i + 1)..Len(s) :
         s[j] \notin cs /\ \A k \in (i + 1)..(j - 1) : s[k] \in cs
  ELSE Len(s) + 1

\* s.split(/\s+/): split at every maximal run of whitespace
RECURSIVE SplitWhitespace(_)
SplitWhitespace(s) ==
  LET i == IndexOfAny(s, Whitespace) IN
  IF i = 0 THEN <<s>>
  ELSE <<SubSeq(s, 1, i - 1)>>
         \o SplitWhitespace(SubSeq(s, RunEnd(s, i, Whitespace), Len(s)))

\* s.split(" "): split at every single space
RECURSIVE SplitSpace(_)
SplitSpace(s) ==
  LET i == IndexOfAny(s, {" "}) IN
  IF i = 0 THEN <<s>>
  ELSE <<SubSeq(s, 1, i - 1)>> \o SplitSpace(SubSeq(s, i + 1, Len(s)))

\* parts.join(" ")
RECURSIVE JoinSpace(_)
JoinSpace(parts) ==
  IF Len(parts) = 0 THEN <<>>
  ELSE IF Len(parts) = 1 THEN parts[1]
  ELSE parts[1] \o <<" ">> \o JoinSpace(Tail(parts))

\* resolverKey.replace(/\s\s/g, " "): every pair of whitespace characters
\* becomes one space
RECURSIVE ReplacePairs(_)
ReplacePairs(s) ==
  IF Len(s) = 0 THEN <<>>
  ELSE IF Len(s) >= 2 /\ s[1] \in Whitespace /\ s[2] \in Whitespace
       THEN <<" ">> \o ReplacePairs(SubSeq(s, 3, Len(s)))
       ELSE <<s[1]>> \o ReplacePairs(Tail(s))

\* normalizeResolverKey replacing pairs of whitespace instead of runs
normalizeResolverKeyPairs(resolverKey) == ReplacePairs(resolverKey)

normalizeResolverKey(resolverKey) == JoinSpace(SplitWhitespace(resolverKey))

\* buildDataSourceKey leaving the field name out
buildDataSourceKeyOfType(typeName, fieldName) ==
  <<"L", "a", "m", "b", "d", "a", "D", "S", "_">> \o typeName

buildDataSourceKey(typeName, fieldName) ==
  <<"L", "a", "m", "b", "d", "a", "D", "S", "_">> \o typeName \o <<"_">> \o fieldName

\* `Lambda_${...}`: the construct id of a function created by the construct
LambdaId(suffix) == <<"L", "a", "m", "b", "d", "a", "_">> \o suffix

\* `${typeName}${fieldName}Resolver`: the construct id createResolver gives
ResolverId(typeName, fieldName) ==
  typeName \o fieldName \o <<"R", "e", "s", "o", "l", "v", "e", "r">>

\* ------------------------------------------------------------------------
\* State
\* ------------------------------------------------------------------------
VARIABLES
  functionsByDsKey,                    \* data-source key -> Fn
  dataSourcesByDsKey,                  \* data-source key -> data source
  dsKeysByResKey,                      \* normalised resolver key -> data-source key
  resolversByResKey,                   \* normalised resolver key -> resolver
  permissionsAttachedForAllFunctions,  \* the permissions given to attachPermissions
  defaultsFunction,                    \* props.defaults?.function is set
  graphqlApi,                          \* number of times the GraphqlApi was realised
  fnChildren,                          \* the Fn constructs created, each by scope and id
  apiChildren,                         \* ids of the constructs created under the GraphqlApi
  attached,                            \* Fn -> the permissions attached to it, in order
  fnProps,                             \* Fn -> the FunctionProps it was created with
  phase,                               \* "new", "ready", or "failed" (constructor threw)
  last                                 \* the last call made and how it ended

vars == <<functionsByDsKey, dataSourcesByDsKey, dsKeysByResKey, resolversByResKey,
          permissionsAttachedForAllFunctions, defaultsFunction, graphqlApi,
          fnChildren, apiChildren, attached, fnProps, phase, last>>

\* the fields of the construct and of the construct tree as one value
Cur ==
  [functionsByDsKey |-> functionsByDsKey,
   dataSourcesByDsKey |-> dataSourcesByDsKey,
   dsKeysByResKey |-> dsKeysByResKey,
   resolversByResKey |-> resolversByResKey,
   permissionsAttachedForAllFunctions |-> permissionsAttachedForAllFunctions,
   defaultsFunction |-> defaultsFunction,
   graphqlApi |-> graphqlApi,
   fnChildren |-> fnChildren,
   apiChildren |-> apiChildren,
   attached |-> attached,
   fnProps |-> fnProps]

\* the outcome of a call: the state it leaves, the error it threw ("" if none)
\* and the value it returned
Outcome(st, err, ret) == [st |-> st, err |-> err, ret |-> ret]

\* ------------------------------------------------------------------------
\* The collaborators: Function and the constructs under the GraphqlApi
\* ------------------------------------------------------------------------
ErrConstructExists == "There is already a Construct with name"
ErrDefaultsWithFn == "Cannot define defaults.function when a Function is passed in"
ErrInvalidFnDef == "Invalid function definition"
ErrInvalidResolver == "Invalid resolver"
ErrInvalidField == "Invalid field defined"
ErrNoDataSource == "Failed to create resolver. Data source does not exist."
ErrNoFunction == "Failed to attach permissions. Function does not exist for key"
ErrTemplateFile == "ENOENT: no such file or directory"
\* a method called on this.cdk.graphqlApi while it is still undefined
ErrNoGraphqlApi == "TypeError: Cannot read properties of undefined"

\* FunctionProps: timeout (<<>> when absent), environment, permissions, layers
FunctionProps(timeout, environment, permissions, layers) ==
  [timeout |-> timeout, environment |-> environment, permissions |-> permissions,
   layers |-> layers]
NoProps == FunctionProps(<<>>, <<>>, <<>>, <<>>)

\* defaults.function, when the props of the construct set it
\* { timeout: 20, environment: { tableName }, permissions: [table], layers: [base] }
DefaultFunctionProps ==
  FunctionProps(<<20>>, [k \in {"tableName"} |-> "table"], <<"table">>, <<"base">>)

\* a function definition: absent, a handler string, FunctionProps with a handler,
\* an already built Fn, or an object that is none of these
FnDef(kind, fn) == [kind |-> kind, fn |-> fn]
NoDef == FnDef("absent", Undefined)
HandlerDef == FnDef("handler", Undefined)
PropsDef == FnDef("props", Undefined)
InvalidDef == FnDef("invalid", Undefined)

\* FunctionProps with a handler and with fields of their own
PropsDefOf(props) == [kind |-> "props", fn |-> Undefined, props |-> props]

\* the fields a definition sets besides the handler
DefinitionProps(definition) ==
  IF "props" \in DOMAIN definition THEN definition.props ELSE NoProps

\* InheritedProps of a construct that passes no defaults on
InheritedPropsNone(st) == NoProps

\* the inheritedProps the construct passes: this.props.defaults?.function
InheritedProps(st) == IF st.defaultsFunction THEN DefaultFunctionProps ELSE NoProps

\* Fn.mergeProps(baseProps, props)
MergeProps(baseProps, props) ==
  [timeout |-> IF props.timeout # <<>> THEN props.timeout ELSE baseProps.timeout,
   environment |->
     [k \in DOMAIN baseProps.environment \cup DOMAIN props.environment |->
        IF k \in DOMAIN props.environment THEN props.environment[k]
        ELSE baseProps.environment[k]],
   permissions |-> baseProps.permissions \o props.permissions,
   layers |-> baseProps.layers \o props.layers]

FnHandle(scope, id) == [kind |-> "Fn", scope |-> scope, id |-> id]

\* fn.attachPermissions(permissions)
FnAttachPermissions(st, fn, permissions) ==
  [st EXCEPT !.attached = [@ EXCEPT ![fn] = Append(@, permissions)]]

\* new Fn(scope, id, props): a construct id is unique within its scope
NewFn(st, scope, id, props) ==
  LET fn == FnHandle(scope, id) IN
  IF fn \in st.fnChildren
  THEN Outcome(st, ErrConstructExists, Undefined)
  ELSE Outcome([st EXCEPT !.fnChildren = @ \cup {fn},
                          !.attached = Put(@, fn, <<>>),
                          !.fnProps = Put(@, fn, props)], "", fn)

\* Fn.fromDefinition(scope, id, definition, inheritedProps, inheritErrorMessage)
FnFromDefinition(st, scope, id, definition) ==
  CASE definition.kind \in {"handler", "props"} ->
         NewFn(st, scope, id, MergeProps(InheritedProps(st), DefinitionProps(definition)))
    [] definition.kind = "Fn" ->
         IF st.defaultsFunction
         THEN Outcome(st, ErrDefaultsWithFn, Undefined)
         ELSE Outcome(st, "", definition.fn)
    [] OTHER -> Outcome(st, ErrInvalidFnDef, Undefined)

DataSource(key, variant, fn) == [kind |-> "ds", key |-> key, variant |-> variant, fn |-> fn]

\* graphqlApi.add<Variant>DataSource(id, ...): a construct with that id under
\* the GraphqlApi
ApiAddDataSource(st, id, variant, fn) ==
  IF st.graphqlApi = 0 THEN Outcome(st, ErrNoGraphqlApi, Undefined)
  ELSE IF id \in st.apiChildren
  THEN Outcome(st, ErrConstructExists, Undefined)
  ELSE Outcome([st EXCEPT !.apiChildren = @ \cup {id}], "", DataSource(id, variant, fn))

\* graphqlApi.createResolver({dataSource, typeName, fieldName, ...}): a construct
\* with id `${typeName}${fieldName}Resolver` under the GraphqlApi
ApiCreateResolver(st, dataSource, typeName, fieldName, request, response) ==
  IF st.graphqlApi = 0 THEN Outcome(st, ErrNoGraphqlApi, Undefined)
  ELSE IF ResolverId(typeName, fieldName) \in st.apiChildren
  THEN Outcome(st, ErrConstructExists, Undefined)
  ELSE Outcome([st EXCEPT !.apiChildren = @ \cup {ResolverId(typeName, fieldName)}], "",
               [kind |-> "resolver", typeName |-> typeName, fieldName |-> fieldName,
                dataSource |-> dataSource,
                requestMappingTemplate |-> request,
                responseMappingTemplate |-> response])

\* ------------------------------------------------------------------------
\* AppSyncApi
\* ------------------------------------------------------------------------

\* A mapping is absent or an object in which file and inline are set or not:
\* "file", "unreadableFile" (a path that cannot be read), "inline",
\* "fileAndInline", "neither". MappingTemplate.fromFile reads the file when it
\* is called; fromString wraps what it is given, undefined included.
buildMappingTemplate(mapping) ==
  CASE mapping = "absent" -> [err |-> "", template |-> "none"]
    [] mapping \in {"file", "fileAndInline"} -> [err |-> "", template |-> "fromFile"]
    [] mapping = "unreadableFile" -> [err |-> ErrTemplateFile, template |-> "none"]
    [] mapping = "inline" -> [err |-> "", template |-> "fromString"]
    [] OTHER -> [err |-> "", template |-> "fromString(undefined)"]

\* StoreDataSource recording the function without testing that there is one
StoreDataSourceAlways(st, dsKey, dataSource, lambda) ==
  [st EXCEPT !.dataSourcesByDsKey = Put(@, dsKey, dataSource),
             !.functionsByDsKey = Put(@, dsKey, lambda)]

\* the data source registered and, for a Lambda data source, its function
StoreDataSource(st, dsKey, dataSource, lambda) ==
  LET st1 == [st EXCEPT !.dataSourcesByDsKey = Put(@, dsKey, dataSource)] IN
  IF lambda # Undefined
  THEN [st1 EXCEPT !.functionsByDsKey = Put(@, dsKey, lambda)]
  ELSE st1

\* dataSourceBranch testing the table before the function
dataSourceBranchTableFirst(dsValue) ==
  IF dsValue.table \/ dsValue.cdkTable THEN "DynamoDb ds"
  ELSE IF dsValue.function.kind # "absent" THEN "Lambda ds"
  ELSE IF dsValue.rds \/ dsValue.cdkServerlessCluster THEN "Rds ds"
  ELSE IF dsValue.endpoint THEN "Http ds"
  ELSE "Lambda function"

\* the branch of addDataSource a value takes: the first whose field is set
dataSourceBranch(dsValue) ==
  IF dsValue.function.kind # "absent" THEN "Lambda ds"
  ELSE IF dsValue.table \/ dsValue.cdkTable THEN "DynamoDb ds"
  ELSE IF dsValue.rds \/ dsValue.cdkServerlessCluster THEN "Rds ds"
  ELSE IF dsValue.endpoint THEN "Http ds"
  ELSE "Lambda function"

\* the function a branch of addDataSource creates before its data source
dataSourceLambda(st, scope, dsKey, dsValue) ==
  CASE dataSourceBranch(dsValue) = "Lambda ds" ->
         FnFromDefinition(st, scope, LambdaId(dsKey), dsValue.function)
    [] dataSourceBranch(dsValue) = "Lambda function" ->
         FnFromDefinition(st, scope, LambdaId(dsKey), dsValue.self)
    [] OTHER -> Outcome(st, "", Undefined)

\* the kind of data source a branch of addDataSource adds to the api
dataSourceVariant(dsValue) ==
  CASE dataSourceBranch(dsValue) = "DynamoDb ds" -> "DynamoDb"
    [] dataSourceBranch(dsValue) = "Rds ds" -> "Rds"
    [] dataSourceBranch(dsValue) = "Http ds" -> "Http"
    [] OTHER -> "Lambda"

\* addDataSource adding the data source to the api before the function is made
addDataSourceApiFirst(st, scope, dsKey, dsValue) ==
  LET d == ApiAddDataSource(st, dsKey, dataSourceVariant(dsValue), Undefined) IN
  IF d.err # "" THEN d
  ELSE LET f == dataSourceLambda(d.st, scope, dsKey, dsValue) IN
       IF f.err # "" THEN f
       ELSE Outcome(StoreDataSource(f.st, dsKey,
                                    DataSource(dsKey, dataSourceVariant(dsValue), f.ret),
                                    f.ret), "", f.ret)

\* addDataSource writing the registries before the data source is added to the api
addDataSourceStoreFirst(st, scope, dsKey, dsValue) ==
  LET f == dataSourceLambda(st, scope, dsKey, dsValue) IN
  IF f.err # "" THEN f
  ELSE LET stored == StoreDataSource(f.st, dsKey,
                                     DataSource(dsKey, dataSourceVariant(dsValue), f.ret),
                                     f.ret)
           d == ApiAddDataSource(stored, dsKey, dataSourceVariant(dsValue), f.ret)
       IN IF d.err # "" THEN d ELSE Outcome(d.st, "", f.ret)

addDataSource(st, scope, dsKey, dsValue) ==
  LET f == dataSourceLambda(st, scope, dsKey, dsValue) IN
  IF f.err # "" THEN f
  ELSE LET d == ApiAddDataSource(f.st, dsKey, dataSourceVariant(dsValue), f.ret) IN
       IF d.err # "" THEN d
       ELSE Outcome(StoreDataSource(d.st, dsKey, d.ret, f.ret), "", f.ret)

\* isLambdaResolverProps giving way to a dataSource field
isLambdaResolverPropsAlone(object) ==
  object.function.kind # "absent" /\ object.dataSource = UndefinedStr

isLambdaResolverProps(object) == object.function.kind # "absent"

isDataSourceResolverProps(object) == object.dataSource # UndefinedStr

\* the second half of addResolver: "Store new data source created" and
\* "Create resolver"
StoreResolver(st, resKey, typeName, fieldName, lambda, dataSource, dataSourceKey, request, response) ==
  LET st1 == IF lambda # Undefined
             THEN [st EXCEPT !.dataSourcesByDsKey = Put(@, dataSourceKey, dataSource),
                             !.functionsByDsKey = Put(@, dataSourceKey, lambda)]
             ELSE st
      st2 == [st1 EXCEPT !.dsKeysByResKey = Put(@, resKey, dataSourceKey)]
      r == ApiCreateResolver(st2, dataSource, typeName, fieldName, request, response)
  IN IF r.err # "" THEN r
     ELSE Outcome([r.st EXCEPT !.resolversByResKey = Put(@, resKey, r.ret)], "", lambda)

\* InlineResolver going on with a data source of its own when the derived key
\* is taken
InlineResolverReplacing(st, scope, resKey, typeName, fieldName, definition, requestMapping, responseMapping) ==
  LET f == FnFromDefinition(st, scope, LambdaId(typeName \o <<"_">> \o fieldName),
                            definition)
      dataSourceKey == buildDataSourceKey(typeName, fieldName)
  IN IF f.err # "" THEN f
     ELSE LET d == ApiAddDataSource(f.st, dataSourceKey, "Lambda", f.ret)
              request == buildMappingTemplate(requestMapping)
              response == buildMappingTemplate(responseMapping)
          IN IF request.err # "" THEN Outcome(d.st, request.err, Undefined)
             ELSE IF response.err # "" THEN Outcome(d.st, response.err, Undefined)
             ELSE StoreResolver(d.st, resKey, typeName, fieldName, f.ret,
                                DataSource(dataSourceKey, "Lambda", f.ret),
                                dataSourceKey, request.template, response.template)

\* the "Lambda resolver" and "Lambda function" branches of addResolver
InlineResolver(st, scope, resKey, typeName, fieldName, definition, requestMapping, responseMapping) ==
  LET f == FnFromDefinition(st, scope, LambdaId(typeName \o <<"_">> \o fieldName),
                            definition)
      dataSourceKey == buildDataSourceKey(typeName, fieldName)
  IN IF f.err # "" THEN f
     ELSE LET d == ApiAddDataSource(f.st, dataSourceKey, "Lambda", f.ret)
              request == buildMappingTemplate(requestMapping)
              response == buildMappingTemplate(responseMapping)
          IN IF d.err # "" THEN d
             ELSE IF request.err # "" THEN Outcome(d.st, request.err, Undefined)
             ELSE IF response.err # "" THEN Outcome(d.st, response.err, Undefined)
             ELSE StoreResolver(d.st, resKey, typeName, fieldName, f.ret, d.ret,
                                dataSourceKey, request.template, response.template)

\* isDataSourceKey taking a string with a dot for a handler path
isDataSourceKeyWithoutDot(st, resValue) ==
  /\ resValue.str # UndefinedStr
  /\ IndexOfAny(resValue.str, {"."}) = 0
  /\ resValue.str \in DOMAIN st.dataSourcesByDsKey

\* isDataSourceKey that never recognises a key
isDataSourceKeyNever(st, resValue) == FALSE

\* typeof resValue === "string" && Object.keys(dataSourcesByDsKey).includes(resValue)
isDataSourceKey(st, resValue) ==
  resValue.str # UndefinedStr /\ resValue.str \in DOMAIN st.dataSourcesByDsKey

\* isStringWithoutDot that lets every string through
isStringWithoutDotNever(resValue) == FALSE

\* typeof resValue === "string" && resValue.indexOf(".") === -1
isStringWithoutDot(resValue) ==
  resValue.str # UndefinedStr /\ IndexOfAny(resValue.str, {"."}) = 0

\* addResolver registering the resolver under the key as it was written
addResolverRawKey(st, scope, rawResKey, resValue) ==
  LET resKey == normalizeResolverKey(rawResKey)
      resolverKeyParts == SplitSpace(resKey)
  IN
  IF Len(resolverKeyParts) # 2 THEN Outcome(st, ErrInvalidResolver, Undefined)
  ELSE
  LET typeName == resolverKeyParts[1]
      fieldName == resolverKeyParts[2]
  IN
  IF Len(fieldName) = 0 THEN Outcome(st, ErrInvalidField, Undefined)
  ELSE IF isDataSourceKey(st, resValue) THEN
    \* DataSource key
    StoreResolver(st, rawResKey, typeName, fieldName, Undefined,
                  st.dataSourcesByDsKey[resValue.str], resValue.str, "none", "none")
  ELSE IF isStringWithoutDot(resValue) THEN
    \* DataSource key not exist
    Outcome(st, ErrNoDataSource, Undefined)
  ELSE IF isLambdaResolverProps(resValue) THEN
    \* Lambda resolver
    InlineResolver(st, scope, rawResKey, typeName, fieldName, resValue.function,
                   resValue.requestMapping, resValue.responseMapping)
  ELSE IF isDataSourceResolverProps(resValue) THEN
    \* DataSource resolver
    LET request == buildMappingTemplate(resValue.requestMapping)
        response == buildMappingTemplate(resValue.responseMapping)
    IN IF request.err # "" THEN Outcome(st, request.err, Undefined)
       ELSE IF response.err # "" THEN Outcome(st, response.err, Undefined)
       ELSE StoreResolver(st, rawResKey, typeName, fieldName, Undefined,
                          Get(st.dataSourcesByDsKey, resValue.dataSource),
                          resValue.dataSource, request.template, response.template)
  ELSE
    \* Lambda function
    InlineResolver(st, scope, rawResKey, typeName, fieldName, resValue.self,
                   "absent", "absent")

addResolver(st, scope, rawResKey, resValue) ==
  LET resKey == normalizeResolverKey(rawResKey)
      resolverKeyParts == SplitSpace(resKey)
  IN
  IF Len(resolverKeyParts) # 2 THEN Outcome(st, ErrInvalidResolver, Undefined)
  ELSE
  LET typeName == resolverKeyParts[1]
      fieldName == resolverKeyParts[2]
  IN
  IF Len(fieldName) = 0 THEN Outcome(st, ErrInvalidField, Undefined)
  ELSE IF isDataSourceKey(st, resValue) THEN
    \* DataSource key
    StoreResolver(st, resKey, typeName, fieldName, Undefined,
                  st.dataSourcesByDsKey[resValue.str], resValue.str, "none", "none")
  ELSE IF isStringWithoutDot(resValue) THEN
    \* DataSource key not exist
    Outcome(st, ErrNoDataSource, Undefined)
  ELSE IF isLambdaResolverProps(resValue) THEN
    \* Lambda resolver
    InlineResolver(st, scope, resKey, typeName, fieldName, resValue.function,
                   resValue.requestMapping, resValue.responseMapping)
  ELSE IF isDataSourceResolverProps(resValue) THEN
    \* DataSource resolver
    LET request == buildMappingTemplate(resValue.requestMapping)
        response == buildMappingTemplate(resValue.responseMapping)
    IN IF request.err # "" THEN Outcome(st, request.err, Undefined)
       ELSE IF response.err # "" THEN Outcome(st, response.err, Undefined)
       ELSE StoreResolver(st, resKey, typeName, fieldName, Undefined,
                          Get(st.dataSourcesByDsKey, resValue.dataSource),
                          resValue.dataSource, request.template, response.template)
  ELSE
    \* Lambda function
    InlineResolver(st, scope, resKey, typeName, fieldName, resValue.self,
                   "absent", "absent")

getFunction(st, key) ==
  LET fn == Get(st.functionsByDsKey, key) IN
  IF fn = Undefined
  THEN LET resKey == normalizeResolverKey(key)
           dsKey == GetStr(st.dsKeysByResKey, resKey)
       IN Get(st.functionsByDsKey, dsKey)
  ELSE fn

getDataSource(st, key) ==
  LET ds == Get(st.dataSourcesByDsKey, key) IN
  IF ds = Undefined
  THEN LET resKey == normalizeResolverKey(key)
           dsKey == GetStr(st.dsKeysByResKey, resKey)
       IN Get(st.dataSourcesByDsKey, dsKey)
  ELSE ds

getResolver(st, key) == Get(st.resolversByResKey, normalizeResolverKey(key))

\* permissionsAttachedForAllFunctions.forEach(p => fn.attachPermissions(p))
RECURSIVE AttachEach(_, _, _)
AttachEach(st, fn, permissionsList) ==
  IF Len(permissionsList) = 0 THEN st
  ELSE AttachEach(FnAttachPermissions(st, fn, permissionsList[1]), fn,
                  Tail(permissionsList))

ReverseSeq(seq) == [i \in 1..Len(seq) |-> seq[Len(seq) + 1 - i]]

\* AttachExisting replaying the list from its end
AttachExistingReversed(st, fn) ==
  IF fn # Undefined
  THEN AttachEach(st, fn, ReverseSeq(st.permissionsAttachedForAllFunctions))
  ELSE st

\* "attached existing permissions": the body of the forEach of addDataSources
\* and of addResolvers after the entry is added
AttachExisting(st, fn) ==
  IF fn # Undefined
  THEN AttachEach(st, fn, st.permissionsAttachedForAllFunctions)
  ELSE st

\* Object.values(functionsByDsKey).forEach(fn => fn.attachPermissions(p)): one
\* call per key, whatever the order of the keys
RECURSIVE AttachToValues(_, _, _)
AttachToValues(st, keys, permissions) ==
  IF keys = {} THEN st
  ELSE LET k == CHOOSE x \in keys : TRUE IN
       AttachToValues(FnAttachPermissions(st, st.functionsByDsKey[k], permissions),
                      keys \ {k}, permissions)

\* attachPermissions putting the permissions at the head of the list
attachPermissionsUnshift(st, permissions) ==
  LET st1 == AttachToValues(st, DOMAIN st.functionsByDsKey, permissions) IN
  Outcome([st1 EXCEPT !.permissionsAttachedForAllFunctions = <<permissions>> \o @],
          "", Undefined)

attachPermissions(st, permissions) ==
  LET st1 == AttachToValues(st, DOMAIN st.functionsByDsKey, permissions) IN
  Outcome([st1 EXCEPT !.permissionsAttachedForAllFunctions = Append(@, permissions)],
          "", Undefined)

\* attachPermissionsToDataSource keeping the permissions for later functions
attachPermissionsToDataSourceRetained(st, key, permissions) ==
  LET fn == getFunction(st, key) IN
  IF fn = Undefined
  THEN Outcome(st, ErrNoFunction, Undefined)
  ELSE Outcome([FnAttachPermissions(st, fn, permissions)
                  EXCEPT !.permissionsAttachedForAllFunctions = Append(@, permissions)],
               "", Undefined)

attachPermissionsToDataSource(st, key, permissions) ==
  LET fn == getFunction(st, key) IN
  IF fn = Undefined
  THEN Outcome(st, ErrNoFunction, Undefined)
  ELSE Outcome(FnAttachPermissions(st, fn, permissions), "", Undefined)

\* a batch call: the entries in the order of Object.keys, each entry followed by
\* the attachment of the existing permissions; an error ends the call.
\* failedAt is the position of the entry that threw, 0 if none did.
\* addDataSources replaying the permissions for its first entry only
RECURSIVE addDataSourcesFromFirstOnly(_, _, _, _)
addDataSourcesFromFirstOnly(st, scope, dataSources, i) ==
  IF i > Len(dataSources) THEN [st |-> st, err |-> "", failedAt |-> 0]
  ELSE LET r == addDataSource(st, scope, dataSources[i].key, dataSources[i].value) IN
       IF r.err # "" THEN [st |-> r.st, err |-> r.err, failedAt |-> i]
       ELSE addDataSourcesFromFirstOnly(IF i = 1 THEN AttachExisting(r.st, r.ret) ELSE r.st,
                                        scope, dataSources, i + 1)

RECURSIVE addDataSourcesFrom(_, _, _, _)
addDataSourcesFrom(st, scope, dataSources, i) ==
  IF i > Len(dataSources) THEN [st |-> st, err |-> "", failedAt |-> 0]
  ELSE LET r == addDataSource(st, scope, dataSources[i].key, dataSources[i].value) IN
       IF r.err # "" THEN [st |-> r.st, err |-> r.err, failedAt |-> i]
       ELSE addDataSourcesFrom(AttachExisting(r.st, r.ret), scope, dataSources, i + 1)

addDataSources(st, scope, dataSources) == addDataSourcesFrom(st, scope, dataSources, 1)

RECURSIVE addResolversFrom(_, _, _, _)
addResolversFrom(st, scope, resolvers, i) ==
  IF i > Len(resolvers) THEN [st |-> st, err |-> "", failedAt |-> 0]
  ELSE LET r == addResolver(st, scope, resolvers[i].key, resolvers[i].value) IN
       IF r.err # "" THEN [st |-> r.st, err |-> r.err, failedAt |-> i]
       ELSE addResolversFrom(AttachExisting(r.st, r.ret), scope, resolvers, i + 1)

addResolvers(st, scope, resolvers) == addResolversFrom(st, scope, resolvers, 1)

createGraphApi(st) == [st EXCEPT !.graphqlApi = @ + 1]

\* the constructor after the fields are initialised: the api, then the data
\* sources of the props, then the resolvers of the props, all in the scope of
\* the construct itself and with no permissions attached yet
RECURSIVE constructDataSources(_, _, _)
constructDataSources(st, dataSources, i) ==
  IF i > Len(dataSources) THEN Outcome(st, "", Undefined)
  ELSE LET r == addDataSource(st, "api", dataSources[i].key, dataSources[i].value) IN
       IF r.err # "" THEN r ELSE constructDataSources(r.st, dataSources, i + 1)

RECURSIVE constructResolvers(_, _, _)
constructResolvers(st, resolvers, i) ==
  IF i > Len(resolvers) THEN Outcome(st, "", Undefined)
  ELSE LET r == addResolver(st, "api", resolvers[i].key, resolvers[i].value) IN
       IF r.err # "" THEN r ELSE constructResolvers(r.st, resolvers, i + 1)

\* the constructor configuring the resolvers before the data sources
constructorResolversFirst(st, props) ==
  LET st1 == createGraphApi([st EXCEPT !.defaultsFunction = props.defaultsFunction])
      r == constructResolvers(st1, props.resolvers, 1)
  IN IF r.err # "" THEN r ELSE constructDataSources(r.st, props.dataSources, 1)

\* the constructor creating the api after the data sources and the resolvers
constructorApiLast(st, props) ==
  LET d == constructDataSources([st EXCEPT !.defaultsFunction = props.defaultsFunction],
                                props.dataSources, 1)
      r == IF d.err # "" THEN d ELSE constructResolvers(d.st, props.resolvers, 1)
  IN Outcome(createGraphApi(r.st), r.err, Undefined)

constructor(st, props) ==
  LET st1 == createGraphApi([st EXCEPT !.defaultsFunction = props.defaultsFunction])
      d == constructDataSources(st1, props.dataSources, 1)
  IN IF d.err # "" THEN d ELSE constructResolvers(d.st, props.resolvers, 1)

\* ------------------------------------------------------------------------
\* Inputs
\* ------------------------------------------------------------------------
\* the scope the caller passes to addDataSources and addResolvers; the
\* constructor passes the construct itself ("api")
Scopes == {"stack"}

\* a Fn built by the caller and passed in as a function definition
Prebuilt == {FnHandle("caller", <<"F">>)}

\* Permissions are opaque to the construct. The n-th call of attachPermissions
\* passes the permissions n; attachPermissionsToDataSource passes permissions 0.
GlobalPermissions == 1..MaxGrants
TargetedPermissions == {0}

KeyA == <<"A">>
KeyB == <<"B">>
KeyUndefined == <<"u", "n", "d", "e", "f", "i", "n", "e", "d">>
KeyDerivedQf == <<"L", "a", "m", "b", "d", "a", "D", "S", "_", "Q", "_", "f">>
KeyUnknown == <<"z", "z">>
HandlerPath == <<"x", ".", "y">>

DsValue(function, table, rds, endpoint, self) ==
  [function |-> function, table |-> table, cdkTable |-> FALSE, rds |-> rds,
   cdkServerlessCluster |-> FALSE, endpoint |-> endpoint, self |-> self]

\* "src/x.main"
DsInline == DsValue(NoDef, FALSE, FALSE, FALSE, HandlerDef)
\* { function: fn } with fn a Fn built by the caller
DsPrebuilt == DsValue(FnDef("Fn", CHOOSE f \in Prebuilt : TRUE), FALSE, FALSE, FALSE,
                      InvalidDef)
\* { type: "dynamodb", table }
DsTable == DsValue(NoDef, TRUE, FALSE, FALSE, InvalidDef)
\* { type: "rds", rds }
DsRds == DsValue(NoDef, FALSE, TRUE, FALSE, InvalidDef)
\* { type: "http", endpoint }
DsHttp == DsValue(NoDef, FALSE, FALSE, TRUE, InvalidDef)

\* { function: "src/x.main", table }: fields of two variants
DsFunctionAndTable == DsValue(HandlerDef, TRUE, FALSE, FALSE, InvalidDef)

ResValue(str, function, dataSource, self) ==
  [str |-> str, function |-> function, dataSource |-> dataSource,
   requestMapping |-> "absent", responseMapping |-> "absent", self |-> self]

\* a string: a data-source key or a handler path
ResString(str) == ResValue(str, NoDef, UndefinedStr, HandlerDef)
\* { function: "src/x.main" }
ResFunction == ResValue(UndefinedStr, HandlerDef, UndefinedStr, InvalidDef)
\* { dataSource: key }
ResDataSource(key) == ResValue(UndefinedStr, NoDef, key, InvalidDef)

Entry(key, value) == [key |-> key, value |-> value]

\* the data-source entries a call may carry
DataSourceEntries ==
  {Entry(KeyA, DsInline), Entry(KeyA, DsPrebuilt), Entry(KeyA, DsTable),
   Entry(KeyB, DsPrebuilt), Entry(KeyB, DsHttp), Entry(KeyB, DsRds),
   Entry(KeyUndefined, DsInline), Entry(KeyDerivedQf, DsInline)}

KeyQf == <<"Q", " ", "f">>
KeyQ2f == <<"Q", " ", " ", "f">>
KeyQtf == <<"Q", "\t", "f">>
KeyQg == <<"Q", " ", "g">>
KeyQ == <<"Q">>
KeyQfg == <<"Q", " ", "f", " ", "g">>
KeySpQ == <<" ", "Q">>
KeyQSp == <<"Q", " ">>

ResKeyInputs == {KeyQf, KeyQ2f, KeyQtf, KeyQg, KeyQ, KeyQfg, KeySpQ, KeyQSp}

\* the resolver entries a call may carry
ResolverEntries ==
  {Entry(KeyQf, ResString(KeyA)), Entry(KeyQf, ResString(KeyB)),
   Entry(KeyQf, ResString(KeyUnknown)), Entry(KeyQf, ResString(HandlerPath)),
   Entry(KeyQf, ResFunction), Entry(KeyQf, ResDataSource(KeyA)),
   Entry(KeyQ2f, ResString(KeyA)), Entry(KeyQ2f, ResString(HandlerPath)),
   Entry(KeyQtf, ResString(KeyB)),
   Entry(KeyQg, ResString(KeyA)), Entry(KeyQg, ResFunction),
   Entry(KeyQg, ResString(KeyUnknown)),
   Entry(KeyQ, ResString(KeyA)), Entry(KeyQfg, ResString(KeyA)),
   Entry(KeySpQ, ResString(KeyA)), Entry(KeyQSp, ResString(KeyA))}

\* the entries of the calls that carry more than one entry
BatchDataSourceEntries ==
  {Entry(KeyA, DsInline), Entry(KeyB, DsPrebuilt), Entry(KeyB, DsHttp)}

BatchResolverEntries ==
  {Entry(KeyQf, ResString(KeyA)), Entry(KeyQ2f, ResString(HandlerPath)),
   Entry(KeyQg, ResFunction), Entry(KeyQ, ResString(KeyA))}

\* the sequences of 2..MaxBatch entries with different keys
Batches(entries) ==
  UNION {{b \in [1..n -> entries] :
            \A i, j \in 1..n : i # j => b[i].key # b[j].key} : n \in 2..MaxBatch}

DataSourceBatches ==
  {<<e>> : e \in DataSourceEntries} \cup Batches(BatchDataSourceEntries)
ResolverBatches ==
  {<<e>> : e \in ResolverEntries} \cup Batches(BatchResolverEntries)

\* the props of the constructor: up to MaxBatch data sources and resolvers
PropsInputs ==
  [defaultsFunction : BOOLEAN,
   dataSources : {<<>>} \cup {<<e>> : e \in BatchDataSourceEntries}
                   \cup Batches(BatchDataSourceEntries),
   resolvers : {<<>>} \cup {<<e>> : e \in BatchResolverEntries}
                 \cup Batches(BatchResolverEntries)]

\* ------------------------------------------------------------------------
\* The state machine
\* ------------------------------------------------------------------------
Last(op, err) == [op |-> op, err |-> err]

\* the places (function, position) of the targeted permissions attached
TargetedAttached(st) ==
  UNION {{<<fn, i>> : i \in {j \in 1..Len(st.attached[fn]) :
                                st.attached[fn][j] \in TargetedPermissions}} :
         fn \in DOMAIN st.attached}

WithinBounds(st) ==
  /\ Cardinality(DOMAIN st.dataSourcesByDsKey) <= MaxDataSources
  /\ Cardinality(DOMAIN st.dsKeysByResKey) <= MaxResolvers
  /\ Len(st.permissionsAttachedForAllFunctions) <= MaxGrants
  /\ Cardinality(TargetedAttached(st)) <= MaxTargeted

Become(st) ==
  /\ functionsByDsKey' = st.functionsByDsKey
  /\ dataSourcesByDsKey' = st.dataSourcesByDsKey
  /\ dsKeysByResKey' = st.dsKeysByResKey
  /\ resolversByResKey' = st.resolversByResKey
  /\ permissionsAttachedForAllFunctions' = st.permissionsAttachedForAllFunctions
  /\ defaultsFunction' = st.defaultsFunction
  /\ graphqlApi' = st.graphqlApi
  /\ fnChildren' = st.fnChildren
  /\ apiChildren' = st.apiChildren
  /\ attached' = st.attached
  /\ fnProps' = st.fnProps

Init ==
  /\ functionsByDsKey = <<>>
  /\ dataSourcesByDsKey = <<>>
  /\ resolversByResKey = <<>>
  /\ dsKeysByResKey = <<>>
  /\ permissionsAttachedForAllFunctions = <<>>
  /\ defaultsFunction = FALSE
  /\ graphqlApi = 0
  /\ fnChildren = {}
  /\ apiChildren = {}
  /\ attached = [fn \in Prebuilt |-> <<>>]
  /\ fnProps = [fn \in Prebuilt |-> NoProps]
  /\ phase = "new"
  /\ last = Last("none", "")

ConstructWith(propsInputs) ==
  /\ phase = "new"
  /\ \E props \in propsInputs :
       LET r == constructor(Cur, props) IN
       /\ WithinBounds(r.st)
       /\ Become(r.st)
       /\ phase' = IF r.err = "" THEN "ready" ELSE "failed"
       /\ last' = Last("constructor", r.err)

AddDataSourcesWith(batches) ==
  /\ phase = "ready"
  /\ \E scope \in Scopes, dataSources \in batches :
       LET r == addDataSources(Cur, scope, dataSources) IN
       /\ WithinBounds(r.st)
       /\ Become(r.st)
       /\ last' = Last("addDataSources", r.err)
       /\ UNCHANGED phase

AddResolversWith(batches) ==
  /\ phase = "ready"
  /\ \E scope \in Scopes, resolvers \in batches :
       LET r == addResolvers(Cur, scope, resolvers) IN
       /\ WithinBounds(r.st)
       /\ Become(r.st)
       /\ last' = Last("addResolvers", r.err)
       /\ UNCHANGED phase

AttachPermissions ==
  /\ phase = "ready"
  /\ \E permissions \in {Len(permissionsAttachedForAllFunctions) + 1} \cap GlobalPermissions :
       LET r == attachPermissions(Cur, permissions) IN
       /\ WithinBounds(r.st)
       /\ Become(r.st)
       /\ last' = Last("attachPermissions", r.err)
       /\ UNCHANGED phase

TargetKeyInputs == {KeyA, KeyB, KeyQf, KeyQ2f, KeyUnknown}

AttachPermissionsToDataSource ==
  /\ phase = "ready"
  /\ \E key \in TargetKeyInputs, permissions \in TargetedPermissions :
       LET r == attachPermissionsToDataSource(Cur, key, permissions) IN
       /\ WithinBounds(r.st)
       /\ Become(r.st)
       /\ last' = Last("attachPermissionsToDataSource", r.err)
       /\ UNCHANGED phase

\* The construct and its add operations, with the declarations of every shape
Construct == ConstructWith(PropsInputs)
AddDataSources == AddDataSourcesWith(DataSourceBatches)
AddResolvers == AddResolversWith(ResolverBatches)

Next ==
  \/ Construct
  \/ AddDataSources
  \/ AddResolvers

Spec == Init /\ [][Next]_vars

\* The construct with the permission operations as well, with the declarations
\* that create a function, share one, or have none
PermDataSourceEntries ==
  {Entry(KeyA, DsInline), Entry(KeyA, DsPrebuilt), Entry(KeyA, DsTable),
   Entry(KeyB, DsPrebuilt), Entry(KeyB, DsHttp), Entry(KeyB, DsRds),
   Entry(KeyUndefined, DsInline)}

PermResolverEntries ==
  {Entry(KeyQf, ResString(KeyA)), Entry(KeyQf, ResString(KeyB)),
   Entry(KeyQ2f, ResString(HandlerPath)), Entry(KeyQg, ResFunction),
   Entry(KeyQg, ResString(KeyA))}

PermPropsInputs ==
  [defaultsFunction : {FALSE},
   dataSources : {<<>>, <<Entry(KeyA, DsInline)>>},
   resolvers : {<<>>, <<Entry(KeyQf, ResString(KeyA))>>, <<Entry(KeyQf, ResFunction)>>}]

PermConstruct == ConstructWith(PermPropsInputs)
PermAddDataSources ==
  AddDataSourcesWith({<<e>> : e \in PermDataSourceEntries}
                       \cup Batches(BatchDataSourceEntries))
PermAddResolvers ==
  AddResolversWith({<<e>> : e \in PermResolverEntries} \cup Batches(BatchResolverEntries))

NextPermissions ==
  \/ PermConstruct
  \/ PermAddDataSources
  \/ PermAddResolvers
  \/ AttachPermissions
  \/ AttachPermissionsToDataSource

SpecPermissions == Init /\ [][NextPermissions]_vars

\* The construct with defaults.function and definitions that are FunctionProps
\* { handler, timeout: 10, environment: { bucketName }, permissions: [bucket] }
ItemProps ==
  FunctionProps(<<10>>, [k \in {"bucketName"} |-> "bucket"], <<"bucket">>, <<>>)
\* { handler, environment: { tableName: "other" }, permissions: [table], layers: [base] }
ItemPropsRepeating ==
  FunctionProps(<<>>, [k \in {"tableName"} |-> "other"], <<"table">>, <<"base">>)

ItemPropsInputs == {NoProps, ItemProps, ItemPropsRepeating}

\* { function: { handler, ... } } and { handler, ... } as a data source
DsFunctionProps(props) == DsValue(PropsDefOf(props), FALSE, FALSE, FALSE, InvalidDef)
DsInlineProps(props) == DsValue(NoDef, FALSE, FALSE, FALSE, PropsDefOf(props))
\* { function: { handler, ... } } and { handler, ... } as a resolver
ResFunctionProps(props) ==
  ResValue(UndefinedStr, PropsDefOf(props), UndefinedStr, InvalidDef)
ResInlineProps(props) == ResValue(UndefinedStr, NoDef, UndefinedStr, PropsDefOf(props))
\* a Fn built by the caller as a data source, and { function: fn } and fn as a resolver
DsPrebuiltSelf ==
  DsValue(NoDef, FALSE, FALSE, FALSE, FnDef("Fn", CHOOSE f \in Prebuilt : TRUE))
ResPrebuilt ==
  ResValue(UndefinedStr, FnDef("Fn", CHOOSE f \in Prebuilt : TRUE), UndefinedStr, InvalidDef)
ResPrebuiltSelf ==
  ResValue(UndefinedStr, NoDef, UndefinedStr, FnDef("Fn", CHOOSE f \in Prebuilt : TRUE))

DefaultsDataSourceEntries ==
  {Entry(k, v) : k \in {KeyA, KeyB},
                 v \in {DsInline, DsInlineProps(ItemProps),
                        DsFunctionProps(ItemPropsRepeating), DsPrebuilt, DsTable}}

DefaultsResolverEntries ==
  {Entry(k, v) : k \in {KeyQf, KeyQg},
                 v \in {ResString(HandlerPath), ResFunction, ResFunctionProps(ItemProps),
                        ResInlineProps(ItemPropsRepeating), ResString(KeyA)}}
    \cup {Entry(KeyQg, ResPrebuilt)}

DefaultsPropsInputs ==
  [defaultsFunction : BOOLEAN,
   dataSources : {<<>>, <<Entry(KeyA, DsInlineProps(ItemProps))>>},
   resolvers : {<<>>, <<Entry(KeyQf, ResFunctionProps(ItemPropsRepeating))>>}]

DefaultsConstruct == ConstructWith(DefaultsPropsInputs)
DefaultsAddDataSources == AddDataSourcesWith({<<e>> : e \in DefaultsDataSourceEntries})
DefaultsAddResolvers == AddResolversWith({<<e>> : e \in DefaultsResolverEntries})

NextDefaults ==
  \/ DefaultsConstruct
  \/ DefaultsAddDataSources
  \/ DefaultsAddResolvers

SpecDefaults == Init /\ [][NextDefaults]_vars

\* The construct with resolver keys of every shape: whitespace before, between
\* and after the names, one name only, names with underscores
KeyAlphabet == {"Q", "_", " ", "\t"}
KeyStrings == UNION {[1..n -> KeyAlphabet] : n \in 0..MaxKeyLen}

KeyQQ == <<"Q", " ", "Q">>
ShapedKeyInputs ==
  {KeyQQ, <<"Q", "\t", " ", "Q">>, <<" ", "Q", " ", "Q", " ">>, <<" ", "Q", " ", "Q">>,
   <<"Q", " ", "Q", " ">>, <<" ", "Q">>, <<"Q", " ">>, <<"Q">>, <<" ">>, <<>>,
   <<"Q", "_", " ", "Q">>, <<"Q", " ", "_", "Q">>, <<"Q", " ", "Q", " ", "Q">>}

ShapedResolverEntries ==
  {Entry(k, v) : k \in ShapedKeyInputs, v \in {ResFunction, ResString(KeyA)}}

ShapedPropsInputs ==
  [defaultsFunction : {FALSE},
   dataSources : {<<>>, <<Entry(KeyA, DsInline)>>},
   resolvers : {<<>>, <<Entry(KeyQQ, ResString(HandlerPath))>>}]

ShapedConstruct == ConstructWith(ShapedPropsInputs)
ShapedAddResolvers == AddResolversWith({<<e>> : e \in ShapedResolverEntries})

NextShapedKeys ==
  \/ ShapedConstruct
  \/ ShapedAddResolvers

SpecShapedKeys == Init /\ [][NextShapedKeys]_vars

\* The construct with resolvers that carry mapping templates
MappingInputs == {"absent", "file", "unreadableFile", "inline", "fileAndInline", "neither"}

\* { function: "src/x.main", requestMapping, responseMapping }
ResFunctionMapped(request, response) ==
  [ResFunction EXCEPT !.requestMapping = request, !.responseMapping = response]
\* { dataSource: key, requestMapping, responseMapping }
ResDataSourceMapped(key, request, response) ==
  [ResDataSource(key) EXCEPT !.requestMapping = request, !.responseMapping = response]

MappedValues ==
  {ResFunctionMapped(request, "absent") : request \in MappingInputs}
    \cup {ResDataSourceMapped(KeyA, request, response) :
            request \in MappingInputs, response \in {"absent", "neither", "unreadableFile"}}

TemplateResolverEntries == {Entry(k, v) : k \in {KeyQf, KeyQg}, v \in MappedValues}

TemplatePropsInputs ==
  [defaultsFunction : {FALSE},
   dataSources : {<<>>, <<Entry(KeyA, DsTable)>>},
   resolvers : {<<>>, <<Entry(KeyQf, ResDataSourceMapped(KeyA, "file", "inline"))>>}]

TemplateConstruct == ConstructWith(TemplatePropsInputs)
TemplateAddResolvers == AddResolversWith({<<e>> : e \in TemplateResolverEntries})

NextTemplates ==
  \/ TemplateConstruct
  \/ TemplateAddResolvers

SpecTemplates == Init /\ [][NextTemplates]_vars

\* The construct with values that carry the fields of several variants or of
\* none, and with a data source whose key reads like a handler path
\* { table, rds, endpoint }
DsTableRdsEndpoint == DsValue(NoDef, TRUE, TRUE, TRUE, InvalidDef)
\* { rds, cdk: { dataSource: { table } } }
DsCdkTableAndRds == [DsValue(NoDef, FALSE, TRUE, FALSE, InvalidDef) EXCEPT !.cdkTable = TRUE]
\* { type: "http" } with no endpoint: no field of a variant and no handler
DsEmpty == DsValue(NoDef, FALSE, FALSE, FALSE, InvalidDef)
\* { function: "src/x.main", dataSource: key }
ResFunctionAndDataSource(key) == ResValue(UndefinedStr, HandlerDef, key, InvalidDef)

VariantDataSourceEntries ==
  {Entry(KeyA, DsInline), Entry(KeyA, DsTable), Entry(KeyA, DsEmpty),
   Entry(KeyB, DsFunctionAndTable), Entry(KeyB, DsTableRdsEndpoint),
   Entry(KeyB, DsCdkTableAndRds), Entry(KeyB, DsHttp),
   Entry(HandlerPath, DsInline), Entry(HandlerPath, DsTable),
   Entry(KeyQf, DsInline)}

VariantResolverEntries ==
  {Entry(k, v) : k \in {KeyQf, KeyQg},
                 v \in {ResString(HandlerPath), ResString(KeyA), ResString(KeyUnknown),
                        ResFunction, ResDataSource(KeyA), ResFunctionAndDataSource(KeyA)}}

VariantPropsInputs ==
  [defaultsFunction : {FALSE},
   dataSources : {<<>>, <<Entry(HandlerPath, DsTable)>>},
   resolvers : {<<>>, <<Entry(KeyQf, ResString(HandlerPath))>>}]

VariantConstruct == ConstructWith(VariantPropsInputs)
VariantAddDataSources == AddDataSourcesWith({<<e>> : e \in VariantDataSourceEntries})
VariantAddResolvers == AddResolversWith({<<e>> : e \in VariantResolverEntries})

NextVariants ==
  \/ VariantConstruct
  \/ VariantAddDataSources
  \/ VariantAddResolvers

SpecVariants == Init /\ [][NextVariants]_vars

\* ------------------------------------------------------------------------
\* Permissions
\* ------------------------------------------------------------------------
IsGlobal(p) == p \in GlobalPermissions
IsTargeted(p) == p \in TargetedPermissions

\* the permissions of attachPermissions among those attached to a function
GlobalsOf(seq) == SelectSeq(seq, IsGlobal)
\* the permissions of attachPermissionsToDataSource among them
TargetedOf(seq) == SelectSeq(seq, IsTargeted)

AddOps == {"addDataSources", "addResolvers"}

\* the functions a step creates and registers
CreatedAndRegistered ==
  {functionsByDsKey'[k] : k \in DOMAIN functionsByDsKey'} \cap (fnChildren' \ fnChildren)

\* C1: when addDataSources or addResolvers returns, every function the call
\* created and registered has received exactly the permissions given to
\* attachPermissions so far, in the order they were given; in particular the
\* permissions attached while no data source existed.
C1_CreatedFunctionsReceiveGrantsInOrder ==
  [][(last'.op \in AddOps /\ last'.err = "") =>
       \A fn \in CreatedAndRegistered :
         attached'[fn] = permissionsAttachedForAllFunctions']_vars

\* both permissions were attached while no data source existed, and the
\* function of the inline resolver added afterwards holds them in order
C1_Witness ==
  /\ last.op = "addResolvers" /\ last.err = ""
  /\ permissionsAttachedForAllFunctions = <<1, 2>>
  /\ DOMAIN dataSourcesByDsKey = {KeyDerivedQf}
  /\ functionsByDsKey[KeyDerivedQf].scope = "stack"
  /\ attached[functionsByDsKey[KeyDerivedQf]] = <<1, 2>>

\* C2: in every state, every function in the registry has received every
\* permission given to attachPermissions exactly once and in the order given.
C2_EveryFunctionHasEveryGrantOnce ==
  \A k \in DOMAIN functionsByDsKey :
    GlobalsOf(attached[functionsByDsKey[k]]) = permissionsAttachedForAllFunctions

\* what a key names, by the registries: a data source directly, else the data
\* source its resolver is bound to
NamedDataSourceKey(key) ==
  IF key \in DOMAIN dataSourcesByDsKey THEN key
  ELSE IF normalizeResolverKey(key) \in DOMAIN dsKeysByResKey
       THEN dsKeysByResKey[normalizeResolverKey(key)]
       ELSE UndefinedStr

\* the key is unregistered, or names a data source that is not a Lambda one
NamesNoFunction(key) ==
  \/ NamedDataSourceKey(key) \notin DOMAIN dataSourcesByDsKey
  \/ dataSourcesByDsKey[NamedDataSourceKey(key)].variant # "Lambda"

\* C3: attachPermissionsToDataSource(key, p) fails whenever key is unregistered
\* or names a DynamoDb, Rds or Http data source, and then changes nothing.
C3_TargetedGrantFailsWithoutFunction ==
  \A key \in TargetKeyInputs, p \in TargetedPermissions :
    (phase = "ready" /\ NamesNoFunction(key)) =>
      LET r == attachPermissionsToDataSource(Cur, key, p) IN
      r.err # "" /\ r.st = Cur

\* C4: a successful attachPermissionsToDataSource appends its permissions once
\* to the list of one function, the one its key resolves to, and changes nothing
\* else; the permissions are never in permissionsAttachedForAllFunctions and no
\* other operation attaches them to any function, old or new.
C4_TargetedGrantAppliedOnceAndNotRetained ==
  [][/\ (last'.op = "attachPermissionsToDataSource" /\ last'.err = "") =>
          \E key \in TargetKeyInputs, p \in TargetedPermissions :
            /\ getFunction(Cur, key) # Undefined
            /\ NamedDataSourceKey(key) \in DOMAIN functionsByDsKey
                  => getFunction(Cur, key) = functionsByDsKey[NamedDataSourceKey(key)]
            /\ attached' = [attached EXCEPT ![getFunction(Cur, key)] = Append(@, p)]
            /\ UNCHANGED <<functionsByDsKey, dataSourcesByDsKey, dsKeysByResKey,
                           resolversByResKey, permissionsAttachedForAllFunctions,
                           fnChildren, apiChildren, fnProps>>
     /\ last'.op # "attachPermissionsToDataSource" =>
          \A fn \in DOMAIN attached' :
            TargetedOf(attached'[fn]) =
              IF fn \in DOMAIN attached THEN TargetedOf(attached[fn]) ELSE <<>>
     /\ \A i \in 1..Len(permissionsAttachedForAllFunctions') :
          ~IsTargeted(permissionsAttachedForAllFunctions'[i])]_vars

\* the function of data source A got a targeted permission, then a global one;
\* the function of the inline resolver created afterwards holds the global one only
C4_Witness ==
  /\ last.op = "addResolvers" /\ last.err = ""
  /\ DOMAIN dsKeysByResKey = {KeyQg}
  /\ KeyA \in DOMAIN functionsByDsKey
  /\ attached[functionsByDsKey[KeyA]] = <<0, 1>>
  /\ buildDataSourceKey(<<"Q">>, <<"g">>) \in DOMAIN functionsByDsKey
  /\ attached[functionsByDsKey[buildDataSourceKey(<<"Q">>, <<"g">>)]] = <<1>>

\* ------------------------------------------------------------------------
\* Resolvers and data sources
\* ------------------------------------------------------------------------
DsValueInputs == {e.value : e \in DataSourceEntries} \cup {DsFunctionAndTable}
ResValueInputs == {e.value : e \in ResolverEntries}
AllScopes == Scopes \cup {"api"}

\* the spellings of the resolver key of (Q, f) and of (Q, g)
SpellingsQf == {KeyQf, KeyQ2f, KeyQtf}
TwoTokenKeys == SpellingsQf \cup {KeyQg}

\* the type name and the field name written in a key of TwoTokenKeys
TypeOf(key) == <<key[1]>>
FieldOf(key) == <<key[Len(key)]>>
Canonical(key) == TypeOf(key) \o <<" ">> \o FieldOf(key)

\* C5: adding a resolver whose value is a string equal to a registered
\* data-source key succeeds (for a well-formed key whose resolver does not exist
\* yet), maps the normalised resolver key to that key, binds the resolver to the
\* data source already registered, and creates no function and no data source.
C5_StringBindsToExistingDataSource ==
  \A key \in TwoTokenKeys, dsKey \in DOMAIN dataSourcesByDsKey, scope \in AllScopes :
    phase = "ready" =>
    LET r == addResolver(Cur, scope, key, ResString(dsKey)) IN
    /\ r.st.dataSourcesByDsKey = dataSourcesByDsKey
    /\ r.st.functionsByDsKey = functionsByDsKey
    /\ r.st.fnChildren = fnChildren
    /\ r.ret = Undefined
    /\ ResolverId(TypeOf(key), FieldOf(key)) \notin apiChildren => r.err = ""
    /\ r.err = "" =>
         /\ r.st.dsKeysByResKey[Canonical(key)] = dsKey
         /\ r.st.resolversByResKey[Canonical(key)].dataSource = dataSourcesByDsKey[dsKey]

\* the resolver of (Q, f) was bound to the one data source there is
C5_Witness ==
  /\ last.op = "addResolvers" /\ last.err = ""
  /\ DOMAIN dataSourcesByDsKey = {KeyA}
  /\ fnChildren = {FnHandle("stack", LambdaId(KeyA))}
  /\ DOMAIN dsKeysByResKey = {KeyQf}
  /\ dsKeysByResKey[KeyQf] = KeyA
  /\ resolversByResKey[KeyQf].dataSource = dataSourcesByDsKey[KeyA]

\* strings a resolver may carry as its value
StringInputs == {KeyA, KeyB, KeyUnknown, KeyUndefined, KeyDerivedQf, HandlerPath,
                 <<"s", "/", "m">>}

HasDot(str) == \E i \in 1..Len(str) : str[i] = "."

\* C6: adding a resolver whose value is a string that is no registered
\* data-source key and has no dot fails (for a well-formed key with the error
\* that the data source does not exist) and changes nothing.
C6_UnknownDataSourceFails ==
  \A key \in ResKeyInputs, str \in StringInputs, scope \in AllScopes :
    (phase = "ready" /\ str \notin DOMAIN dataSourcesByDsKey /\ ~HasDot(str)) =>
      LET r == addResolver(Cur, scope, key, ResString(str)) IN
      /\ r.err # ""
      /\ r.st = Cur
      /\ key \in TwoTokenKeys => r.err = ErrNoDataSource

\* an addResolvers call failed on a reference to a data source that does not exist
C6_Witness ==
  /\ last.op = "addResolvers" /\ last.err = ErrNoDataSource
  /\ KeyUnknown \notin DOMAIN dataSourcesByDsKey

\* C7: for every resolver bound to a Lambda data-source key K, getFunction and
\* getDataSource called with any spelling of the resolver key return what they
\* return for K: the function and the data source registered under K.
C7_ResolverKeyAndDataSourceKeyGiveSameHandles ==
  \A key \in TwoTokenKeys :
    (/\ Canonical(key) \in DOMAIN dsKeysByResKey
     /\ dsKeysByResKey[Canonical(key)] \in DOMAIN functionsByDsKey) =>
      LET K == dsKeysByResKey[Canonical(key)] IN
      /\ getFunction(Cur, key) = functionsByDsKey[K]
      /\ getFunction(Cur, K) = functionsByDsKey[K]
      /\ getDataSource(Cur, key) = dataSourcesByDsKey[K]
      /\ getDataSource(Cur, K) = dataSourcesByDsKey[K]

\* C8: a resolver added under one spelling of its key is the resolver that
\* getResolver returns under every spelling that differs in the whitespace
\* between type and field name, and getFunction and getDataSource return the
\* function and the data source it is bound to under every such spelling.
C8_SpellingsDenoteOneResolver ==
  \A k1 \in SpellingsQf, k2 \in SpellingsQf, value \in ResValueInputs, scope \in AllScopes :
    LET r == addResolver(Cur, scope, k1, value) IN
    (phase = "ready" /\ r.err = "") =>
      /\ getResolver(r.st, k2) # Undefined
      /\ getResolver(r.st, k2).typeName = <<"Q">>
      /\ getResolver(r.st, k2).fieldName = <<"f">>
      /\ getResolver(r.st, k2).dataSource = getDataSource(r.st, k2)
      /\ getResolver(r.st, k2) = getResolver(r.st, k1)
      /\ getDataSource(r.st, k2) = getDataSource(r.st, k1)
      /\ getFunction(r.st, k2) = getFunction(r.st, k1)
      /\ r.ret # Undefined => getFunction(r.st, k2) = r.ret

\* the number of tokens of a key: its maximal runs of characters other than
\* whitespace
TokenCount(key) ==
  Cardinality({i \in 1..Len(key) :
                 key[i] \notin Whitespace /\ (i = 1 \/ key[i - 1] \in Whitespace)})

\* C9: adding a resolver whose key has one token only, or three or more, fails
\* with the error of an invalid resolver key and changes nothing.
C9_MalformedKeyFails ==
  \A key \in ResKeyInputs, value \in ResValueInputs, scope \in AllScopes :
    (phase = "ready" /\ TokenCount(key) # 2) =>
      LET r == addResolver(Cur, scope, key, value) IN
      r.err \in {ErrInvalidResolver, ErrInvalidField} /\ r.st = Cur

\* C10: adding a data source under a key that is registered fails and leaves
\* the data source and the function registered under the key as they are.
C10_DuplicateDataSourceKeyFails ==
  \A dsKey \in DOMAIN dataSourcesByDsKey, value \in DsValueInputs, scope \in AllScopes :
    LET r == addDataSource(Cur, scope, dsKey, value) IN
    phase = "ready" =>
    /\ r.err # ""
    /\ r.st.dataSourcesByDsKey = dataSourcesByDsKey
    /\ r.st.functionsByDsKey = functionsByDsKey

\* an addDataSources call failed on a key that was registered
C10_Witness ==
  /\ last.op = "addDataSources" /\ last.err = ErrConstructExists
  /\ DOMAIN dataSourcesByDsKey = {KeyA}
  /\ dataSourcesByDsKey[KeyA].variant = "DynamoDb"
  /\ functionsByDsKey = <<>>

\* the keys of a map that are spellings of the resolver key of (Q, f)
SpelledQf(map) == {k \in DOMAIN map : JoinSpace(SplitWhitespace(k)) = KeyQf}

\* C11: after a resolver of (Q, f) is added under one spelling and a second
\* one is added under any spelling, the Resolver Registry and the Resolver Key
\* Index hold one entry for (Q, f), under the normalised key, whether the second
\* call fails or not; in every state each holds at most one entry for (Q, f).
C11_SpellingsCollideOnOneKey ==
  /\ Cardinality(SpelledQf(resolversByResKey)) <= 1
  /\ Cardinality(SpelledQf(dsKeysByResKey)) <= 1
  /\ \A k1 \in SpellingsQf, k2 \in SpellingsQf, v1 \in ResValueInputs, v2 \in ResValueInputs :
       LET r1 == addResolver(Cur, "stack", k1, v1)
           r2 == addResolver(r1.st, "stack", k2, v2)
       IN (phase = "ready" /\ r1.err = "") =>
            /\ SpelledQf(r2.st.resolversByResKey) = {KeyQf}
            /\ SpelledQf(r2.st.dsKeysByResKey) = {KeyQf}

\* a second resolver of (Q, f) was rejected after the first was bound to A: the
\* index holds the one key, rebound by the second call, and the registry holds
\* the one resolver
C11_Witness ==
  /\ last.op = "addResolvers" /\ last.err = ErrConstructExists
  /\ DOMAIN resolversByResKey = {KeyQf}
  /\ DOMAIN dsKeysByResKey = {KeyQf}
  /\ resolversByResKey[KeyQf].dataSource.key = KeyA
  /\ dsKeysByResKey[KeyQf] = KeyDerivedQf

\* C12: in every state every resolver key of the Resolver Key Index maps to a
\* data-source key of the Data Source Registry, and every registered resolver
\* is bound to a data source of the registry.
C12_ResolverBindingsReferToDataSources ==
  /\ \A k \in DOMAIN dsKeysByResKey : dsKeysByResKey[k] \in DOMAIN dataSourcesByDsKey
  /\ \A k \in DOMAIN resolversByResKey :
       \E dsKey \in DOMAIN dataSourcesByDsKey :
         resolversByResKey[k].dataSource = dataSourcesByDsKey[dsKey]

\* every entry of the map `before` is an entry of the map `after`
SubMap(before, after) ==
  \A k \in DOMAIN before : k \in DOMAIN after /\ after[k] = before[k]

\* what was registered in the state `before` is registered in the state `after`
Intact(before, after) ==
  /\ SubMap(before.resolversByResKey, after.resolversByResKey)
  /\ SubMap(before.dsKeysByResKey, after.dsKeysByResKey)
  /\ SubMap(before.dataSourcesByDsKey, after.dataSourcesByDsKey)
  /\ SubMap(before.functionsByDsKey, after.functionsByDsKey)
  /\ SubMap(before.attached, after.attached)

\* the functions registered in `after` that `before` did not have hold the
\* permissions of attachPermissions
NewFunctionsHoldGrants(before, after) ==
  \A k \in DOMAIN after.functionsByDsKey :
    after.functionsByDsKey[k] \in after.fnChildren \ before.fnChildren =>
      after.attached[after.functionsByDsKey[k]] = after.permissionsAttachedForAllFunctions

\* C13: when addResolvers or addDataSources fails on an entry of its batch, the
\* entries before it were all added without error and what they registered
\* (resolver, index entry, data source, function, replayed permissions) is in
\* the state the call leaves, unchanged; the entries after it are not
\* processed: the state is the one the failing entry left.
C13_NoRollbackOnBatchFailure ==
  /\ \A scope \in Scopes, b \in Batches(BatchResolverEntries) :
       LET r == addResolvers(Cur, scope, b)
           p == addResolvers(Cur, scope, SubSeq(b, 1, r.failedAt - 1))
       IN (phase = "ready" /\ r.failedAt > 0) =>
            /\ p.err = ""
            /\ NewFunctionsHoldGrants(Cur, p.st)
            /\ Intact(p.st, r.st)
            /\ r.st = addResolver(p.st, scope, b[r.failedAt].key, b[r.failedAt].value).st
  /\ \A scope \in Scopes, b \in Batches(BatchDataSourceEntries) :
       LET r == addDataSources(Cur, scope, b)
           p == addDataSources(Cur, scope, SubSeq(b, 1, r.failedAt - 1))
       IN (phase = "ready" /\ r.failedAt > 0) =>
            /\ p.err = ""
            /\ NewFunctionsHoldGrants(Cur, p.st)
            /\ Intact(p.st, r.st)
            /\ r.st = addDataSource(p.st, scope, b[r.failedAt].key, b[r.failedAt].value).st

\* keys a caller may look up
LookupKeyInputs ==
  {KeyA, KeyB, KeyUnknown, KeyDerivedQf, KeyQf, KeyQ2f, KeyQtf, KeyQg, KeyQ, KeySpQ,
   KeyQSp, <<>>}

\* the key is no data-source key and, normalised, no resolver key
Unregistered(key) ==
  /\ key \notin DOMAIN dataSourcesByDsKey
  /\ key \notin DOMAIN functionsByDsKey
  /\ normalizeResolverKey(key) \notin DOMAIN dsKeysByResKey
  /\ normalizeResolverKey(key) \notin DOMAIN resolversByResKey

\* C14: for a key that is no registered data-source key and, normalised, no
\* registered resolver key, getFunction, getDataSource and getResolver return
\* nothing.
C14_UnregisteredKeyFindsNothing ==
  \A key \in LookupKeyInputs :
    Unregistered(key) =>
      /\ getFunction(Cur, key) = Undefined
      /\ getDataSource(Cur, key) = Undefined
      /\ getResolver(Cur, key) = Undefined

\* the registries by their keys: the keys of the data sources with the variant
\* of each, the keys of the functions, the keys of the resolvers with the type
\* and field of each, and the Resolver Key Index
RegistryKeys(st) ==
  [dataSources |-> [k \in DOMAIN st.dataSourcesByDsKey |-> st.dataSourcesByDsKey[k].variant],
   functions |-> DOMAIN st.functionsByDsKey,
   resolvers |-> [k \in DOMAIN st.resolversByResKey |->
                    <<st.resolversByResKey[k].typeName, st.resolversByResKey[k].fieldName>>],
   index |-> st.dsKeysByResKey]

\* one call of addDataSources, or of addResolvers, for each entry
RECURSIVE addDataSourcesOneByOne(_, _, _, _)
addDataSourcesOneByOne(st, scope, dataSources, i) ==
  IF i > Len(dataSources) THEN [st |-> st, err |-> ""]
  ELSE LET r == addDataSources(st, scope, <<dataSources[i]>>) IN
       IF r.err # "" THEN [st |-> r.st, err |-> r.err]
       ELSE addDataSourcesOneByOne(r.st, scope, dataSources, i + 1)

RECURSIVE addResolversOneByOne(_, _, _, _)
addResolversOneByOne(st, scope, resolvers, i) ==
  IF i > Len(resolvers) THEN [st |-> st, err |-> ""]
  ELSE LET r == addResolvers(st, scope, <<resolvers[i]>>) IN
       IF r.err # "" THEN [st |-> r.st, err |-> r.err]
       ELSE addResolversOneByOne(r.st, scope, resolvers, i + 1)

EmptyProps(props) == [props EXCEPT !.dataSources = <<>>, !.resolvers = <<>>]

\* C15: the constructor given data sources D and resolvers R succeeds exactly
\* when the constructor without them followed by addDataSources(D) and
\* addResolvers(R) succeeds, in one call each or in one call per entry, and
\* then all three leave the same registries by key.
C15_UpFrontEqualsLaterAddition ==
  \A props \in PropsInputs, scope \in Scopes :
    phase = "new" =>
      LET c == constructor(Cur, props)
          e == constructor(Cur, EmptyProps(props))
          d == addDataSources(e.st, scope, props.dataSources)
          r == addResolvers(d.st, scope, props.resolvers)
          d1 == addDataSourcesOneByOne(e.st, scope, props.dataSources, 1)
          r1 == addResolversOneByOne(d1.st, scope, props.resolvers, 1)
      IN /\ e.err = ""
         /\ c.err = "" <=> (d.err = "" /\ r.err = "")
         /\ c.err = "" <=> (d1.err = "" /\ r1.err = "")
         /\ c.err = "" =>
              /\ RegistryKeys(c.st) = RegistryKeys(r.st)
              /\ RegistryKeys(c.st) = RegistryKeys(r1.st)

\* the api was constructed with data source A and resolvers for (Q, f) on A and
\* for (Q, g) with its own function
C15_Witness ==
  /\ last.op = "constructor" /\ last.err = ""
  /\ DOMAIN dataSourcesByDsKey = {KeyA, buildDataSourceKey(<<"Q">>, <<"g">>)}
  /\ DOMAIN resolversByResKey = {KeyQf, KeyQg}
  /\ dsKeysByResKey[KeyQf] = KeyA

\* ------------------------------------------------------------------------
\* Defaults
\* ------------------------------------------------------------------------
\* the merge policy, field by field: merged is what defaults and item give
MergedByPolicy(merged, defaults, item) ==
  /\ merged.timeout = IF item.timeout = <<>> THEN defaults.timeout ELSE item.timeout
  /\ DOMAIN merged.environment = DOMAIN defaults.environment \cup DOMAIN item.environment
  /\ \A k \in DOMAIN item.environment : merged.environment[k] = item.environment[k]
  /\ \A k \in DOMAIN defaults.environment \ DOMAIN item.environment :
       merged.environment[k] = defaults.environment[k]
  /\ merged.permissions = defaults.permissions \o item.permissions
  /\ merged.layers = defaults.layers \o item.layers

\* the defaults.function of the construct in this state
DefaultsOfConstruct ==
  IF defaultsFunction THEN DefaultFunctionProps ELSE NoProps

\* C16: a function the construct creates for a data source or a resolver from
\* a definition with fields of its own has the timeout of the definition when
\* it sets one and of defaults.function otherwise, the environment of both with
\* the definition winning on a shared key, and the permissions and the layers
\* of defaults.function followed by those of the definition, nothing removed.
C16_DefaultsMergedIntoCreatedFunctions ==
  \A item \in ItemPropsInputs, scope \in AllScopes :
    phase = "ready" =>
      /\ \A dsKey \in {KeyA, KeyB}, v \in {DsFunctionProps(item), DsInlineProps(item)} :
           LET r == addDataSource(Cur, scope, dsKey, v) IN
           r.err = "" => MergedByPolicy(r.st.fnProps[r.ret], DefaultsOfConstruct, item)
      /\ \A key \in TwoTokenKeys, v \in {ResFunctionProps(item), ResInlineProps(item)} :
           LET r == addResolver(Cur, scope, key, v) IN
           r.err = "" => MergedByPolicy(r.st.fnProps[r.ret], DefaultsOfConstruct, item)

\* with defaults.function set, the function of data source A was created from
\* a definition with a timeout, an environment and permissions of its own, and
\* the function of the resolver of (Q, g) from one repeating those of the defaults
C16_Witness ==
  /\ defaultsFunction
  /\ KeyA \in DOMAIN functionsByDsKey
  /\ fnProps[functionsByDsKey[KeyA]] =
       FunctionProps(<<10>>, [k \in {"tableName", "bucketName"} |->
                                IF k = "tableName" THEN "table" ELSE "bucket"],
                     <<"table", "bucket">>, <<"base">>)
  /\ KeyQg \in DOMAIN dsKeysByResKey
  /\ fnProps[getFunction(Cur, KeyQg)] =
       FunctionProps(<<20>>, [k \in {"tableName"} |-> "other"],
                     <<"table", "table">>, <<"base", "base">>)

\* ------------------------------------------------------------------------
\* Resolver keys
\* ------------------------------------------------------------------------
\* C17: normalizeResolverKey gives a key for every string, without a tab and
\* without two spaces in a row, and normalising that key again gives the same
\* key; so adding a resolver under a key and under its normalised form come to
\* the same.
C17_NormalizeIsIdempotent ==
  /\ \A x \in KeyStrings :
       LET n == normalizeResolverKey(x) IN
       /\ n \in KeyStrings
       /\ \A i \in 1..Len(n) : n[i] # "\t" /\ (i > 1 /\ n[i] = " " => n[i - 1] # " ")
       /\ normalizeResolverKey(n) = n
  /\ \A x \in ShapedKeyInputs, v \in {ResFunction, ResString(KeyA)} :
       phase = "ready" =>
         addResolver(Cur, "stack", normalizeResolverKey(x), v) = addResolver(Cur, "stack", x, v)

\* the resolver of (Q, Q) is registered under the normalised key, to which a
\* spelling with a tab and a space normalises, once and twice
C17_Witness ==
  /\ last.op = "addResolvers" /\ last.err = ""
  /\ DOMAIN resolversByResKey = {KeyQQ}
  /\ normalizeResolverKey(<<"Q", "\t", " ", "Q">>) = KeyQQ
  /\ getResolver(Cur, normalizeResolverKey(<<"Q", "\t", " ", "Q">>)) = resolversByResKey[KeyQQ]

\* the key without the whitespace before its first and after its last name
Trim(x) ==
  LET named == {i \in 1..Len(x) : x[i] \notin Whitespace} IN
  IF named = {} THEN <<>>
  ELSE SubSeq(x, CHOOSE i \in named : \A j \in named : i <= j,
                 CHOOSE i \in named : \A j \in named : j <= i)

\* C18: a key with whitespace before or after its names normalises to what
\* the key without it normalises to, and " Q Q " is accepted by addResolver as
\* the resolver of (Q, Q), as "Q Q" is.
C18_NormalizeTrims ==
  phase = "ready" =>
    /\ \A x \in KeyStrings : normalizeResolverKey(x) = normalizeResolverKey(Trim(x))
    /\ \A v \in {ResFunction, ResString(KeyA)} :
         addResolver(Cur, "stack", <<" ", "Q", " ", "Q", " ">>, v)
           = addResolver(Cur, "stack", KeyQQ, v)

\* C19: every registered resolver has a type name and a field name that are
\* not empty, and adding a resolver under a key whose normalised form splits
\* into two parts of which one is empty fails and registers nothing.
C19_RegisteredNamesAreNotEmpty ==
  /\ \A k \in DOMAIN resolversByResKey :
       resolversByResKey[k].typeName # <<>> /\ resolversByResKey[k].fieldName # <<>>
  /\ \A x \in ShapedKeyInputs, v \in {ResFunction, ResString(KeyA)} :
       LET parts == SplitSpace(normalizeResolverKey(x))
           r == addResolver(Cur, "stack", x, v)
       IN (phase = "ready" /\ Len(parts) = 2 /\ (parts[1] = <<>> \/ parts[2] = <<>>)) =>
            r.err # "" /\ r.st = Cur

\* type and field names: the strings of one or two characters over Q and _
NameInputs == UNION {[1..n -> {"Q", "_"}] : n \in 1..2}

\* the parts addResolver splits a key into
PartsOf(x) == SplitSpace(normalizeResolverKey(x))

\* C20: different pairs of type name and field name have different derived
\* data-source keys and function ids, also when the names contain underscores;
\* so adding an inline resolver never takes the derived key of a resolver of
\* another pair.
C20_DerivedKeysAreInjective ==
  /\ \A t1 \in NameInputs, f1 \in NameInputs, t2 \in NameInputs, f2 \in NameInputs :
       (phase = "ready" /\ <<t1, f1>> # <<t2, f2>>) =>
         /\ buildDataSourceKey(t1, f1) # buildDataSourceKey(t2, f2)
         /\ LambdaId(t1 \o <<"_">> \o f1) # LambdaId(t2 \o <<"_">> \o f2)
  /\ \A k1 \in ShapedKeyInputs, k2 \in ShapedKeyInputs :
       LET r == addResolver(Cur, "stack", k1, ResFunction)
           derived == buildDataSourceKey(PartsOf(k2)[1], PartsOf(k2)[2])
       IN (/\ phase = "ready" /\ r.err = ""
           /\ Len(PartsOf(k2)) = 2 /\ PartsOf(k1) # PartsOf(k2)
           /\ derived \notin DOMAIN dataSourcesByDsKey)
          => derived \notin DOMAIN r.st.dataSourcesByDsKey

\* ------------------------------------------------------------------------
\* Registries over time
\* ------------------------------------------------------------------------
\* C21: a step of any operation leaves every registered data-source key with
\* the data source and the function it had; an inline resolver whose derived
\* key is taken does not replace the entry under it.
C21_RegisteredHandlesAreStable ==
  [][/\ \A k \in DOMAIN dataSourcesByDsKey :
          k \in DOMAIN dataSourcesByDsKey' /\ dataSourcesByDsKey'[k] = dataSourcesByDsKey[k]
     /\ \A k \in DOMAIN functionsByDsKey :
          k \in DOMAIN functionsByDsKey' /\ functionsByDsKey'[k] = functionsByDsKey[k]]_vars

\* an explicit data source is registered under the derived key of (Q, f); an
\* inline resolver of (Q, f) created its function and was then rejected, and
\* the key still holds the function of the explicit data source
C21_Witness ==
  /\ last.op = "addResolvers" /\ last.err = ErrConstructExists
  /\ KeyDerivedQf \in DOMAIN dataSourcesByDsKey
  /\ FnHandle("stack", LambdaId(<<"Q", "_", "f">>)) \in fnChildren
  /\ functionsByDsKey[KeyDerivedQf] = FnHandle("stack", LambdaId(KeyDerivedQf))
  /\ dataSourcesByDsKey[KeyDerivedQf].fn = FnHandle("stack", LambdaId(KeyDerivedQf))

\* C22: no step, failing or not, removes a key from the Data Source Registry,
\* the function map, the Resolver Registry or the Resolver Key Index, and the
\* list of permissions given to attachPermissions after a step begins with the
\* list before it.
C22_RegistriesAreAppendOnly ==
  [][/\ DOMAIN dataSourcesByDsKey \subseteq DOMAIN dataSourcesByDsKey'
     /\ DOMAIN functionsByDsKey \subseteq DOMAIN functionsByDsKey'
     /\ DOMAIN resolversByResKey \subseteq DOMAIN resolversByResKey'
     /\ DOMAIN dsKeysByResKey \subseteq DOMAIN dsKeysByResKey'
     /\ Len(permissionsAttachedForAllFunctions) <= Len(permissionsAttachedForAllFunctions')
     /\ SubSeq(permissionsAttachedForAllFunctions', 1,
               Len(permissionsAttachedForAllFunctions))
          = permissionsAttachedForAllFunctions]_vars

\* after two calls of attachPermissions and registrations of a data source and
\* a resolver, a call of addResolvers has failed, and all of them are there
C22_Witness ==
  /\ last.op = "addResolvers" /\ last.err # ""
  /\ permissionsAttachedForAllFunctions = <<1, 2>>
  /\ KeyA \in DOMAIN dataSourcesByDsKey /\ KeyA \in DOMAIN functionsByDsKey
  /\ KeyQf \in DOMAIN resolversByResKey /\ KeyQf \in DOMAIN dsKeysByResKey

\* ------------------------------------------------------------------------
\* Variants
\* ------------------------------------------------------------------------
NonLambdaValues == {DsTable, DsRds, DsHttp}

\* C23: every key of the function map is a key of the Data Source Registry,
\* and a registered data source has a function exactly when it is a Lambda one;
\* adding a DynamoDb, Rds or Http data source returns no function, records
\* none and attaches no permissions.
C23_FunctionsBelongToLambdaDataSources ==
  /\ DOMAIN functionsByDsKey \subseteq DOMAIN dataSourcesByDsKey
  /\ \A k \in DOMAIN dataSourcesByDsKey :
       /\ k \in DOMAIN functionsByDsKey <=> dataSourcesByDsKey[k].variant = "Lambda"
       /\ k \in DOMAIN functionsByDsKey =>
            functionsByDsKey[k] # Undefined /\ dataSourcesByDsKey[k].fn = functionsByDsKey[k]
  /\ \A dsKey \in {KeyA, KeyB}, v \in NonLambdaValues, scope \in Scopes :
       LET r == addDataSource(Cur, scope, dsKey, v)
           b == addDataSources(Cur, scope, <<Entry(dsKey, v)>>)
       IN (phase = "ready" /\ r.err = "") =>
            /\ r.ret = Undefined
            /\ r.st.functionsByDsKey = functionsByDsKey
            /\ b.err = "" /\ b.st.attached = attached

\* with permissions attached, a DynamoDb and an Http data source are registered
\* and neither has a function
C23_Witness ==
  /\ permissionsAttachedForAllFunctions # <<>>
  /\ DOMAIN dataSourcesByDsKey = {KeyA, KeyB}
  /\ dataSourcesByDsKey[KeyA].variant = "DynamoDb"
  /\ dataSourcesByDsKey[KeyB].variant = "Http"
  /\ functionsByDsKey = <<>>
  /\ last.op = "addDataSources" /\ last.err = ""

\* every shape of a data-source value: a function field or none, each of the
\* fields of the other variants set or not, and the value itself a handler or not
DsValueShapes ==
  [function : {NoDef, HandlerDef}, table : BOOLEAN, cdkTable : BOOLEAN, rds : BOOLEAN,
   cdkServerlessCluster : BOOLEAN, endpoint : BOOLEAN, self : {HandlerDef, InvalidDef}]

\* the variant the priority order gives a value; "none" if it has no field of
\* a variant and is no function definition
VariantByPriority(v) ==
  IF v.function # NoDef THEN "Lambda"
  ELSE IF v.table \/ v.cdkTable THEN "DynamoDb"
  ELSE IF v.rds \/ v.cdkServerlessCluster THEN "Rds"
  ELSE IF v.endpoint THEN "Http"
  ELSE IF v.self = HandlerDef THEN "Lambda"
  ELSE "none"

\* C24: every data-source value added under a free key is registered as one
\* data source, of the variant of its first field in the order function, table,
\* rds, endpoint, or as a Lambda one if it has none of them and is a function
\* definition; a value that has none and is no function definition fails and
\* registers nothing.
C24_DataSourceClassifiedByPriority ==
  \A v \in DsValueShapes, dsKey \in {KeyA, KeyB}, scope \in Scopes :
    LET r == addDataSource(Cur, scope, dsKey, v) IN
    (/\ phase = "ready"
     /\ dsKey \notin apiChildren
     /\ FnHandle(scope, LambdaId(dsKey)) \notin fnChildren) =>
      IF VariantByPriority(v) = "none"
      THEN r.err = ErrInvalidFnDef /\ r.st = Cur
      ELSE /\ r.err = ""
           /\ DOMAIN r.st.dataSourcesByDsKey = DOMAIN dataSourcesByDsKey \cup {dsKey}
           /\ r.st.dataSourcesByDsKey[dsKey].variant = VariantByPriority(v)
           /\ r.st.apiChildren = apiChildren \cup {dsKey}
           /\ (r.ret # Undefined) <=> (VariantByPriority(v) = "Lambda")

\* B was declared with a function and a table and is a Lambda data source; A
\* was declared with a table only
C24_Witness ==
  /\ last.op = "addDataSources" /\ last.err = ""
  /\ DOMAIN dataSourcesByDsKey = {KeyA, KeyB}
  /\ dataSourcesByDsKey[KeyB].variant = "Lambda"
  /\ functionsByDsKey[KeyB] = FnHandle("stack", LambdaId(KeyB))
  /\ dataSourcesByDsKey[KeyA].variant = "DynamoDb"

\* C25: a resolver whose value is a string is bound to the data source
\* registered under that string whenever there is one, also when the string has
\* a dot, and creates nothing; only a string that is no registered key is
\* rejected (no dot) or taken as the handler of a new function (a dot).
C25_StringIsLookedUpFirst ==
  \A str \in StringInputs, key \in TwoTokenKeys, scope \in Scopes :
    LET r == addResolver(Cur, scope, key, ResString(str))
        derived == buildDataSourceKey(TypeOf(key), FieldOf(key))
    IN (/\ phase = "ready"
        /\ ResolverId(TypeOf(key), FieldOf(key)) \notin apiChildren
        /\ derived \notin apiChildren
        /\ FnHandle(scope, LambdaId(TypeOf(key) \o <<"_">> \o FieldOf(key))) \notin fnChildren) =>
         IF str \in DOMAIN dataSourcesByDsKey
         THEN /\ r.err = "" /\ r.ret = Undefined
              /\ r.st.dsKeysByResKey[Canonical(key)] = str
              /\ r.st.resolversByResKey[Canonical(key)].dataSource = dataSourcesByDsKey[str]
              /\ r.st.fnChildren = fnChildren
              /\ r.st.dataSourcesByDsKey = dataSourcesByDsKey
         ELSE IF HasDot(str)
         THEN /\ r.err = "" /\ r.ret \in r.st.fnChildren \ fnChildren
              /\ r.st.dsKeysByResKey[Canonical(key)] = derived
              /\ r.st.functionsByDsKey[derived] = r.ret
         ELSE r.err = ErrNoDataSource /\ r.st = Cur

\* a DynamoDb data source is registered under "x.y" and the resolver of (Q, f),
\* declared with the string "x.y", is bound to it; no function was created
C25_Witness ==
  /\ last.op = "addResolvers" /\ last.err = ""
  /\ HandlerPath \in DOMAIN dataSourcesByDsKey
  /\ dataSourcesByDsKey[HandlerPath].variant = "DynamoDb"
  /\ DOMAIN dsKeysByResKey = {KeyQf}
  /\ dsKeysByResKey[KeyQf] = HandlerPath
  /\ resolversByResKey[KeyQf].dataSource = dataSourcesByDsKey[HandlerPath]
  /\ fnChildren = {}

\* the construct ids an inline resolver under a key needs are free
InlineIdsFree(scope, key) ==
  /\ ResolverId(TypeOf(key), FieldOf(key)) \notin apiChildren
  /\ buildDataSourceKey(TypeOf(key), FieldOf(key)) \notin apiChildren
  /\ FnHandle(scope, LambdaId(TypeOf(key) \o <<"_">> \o FieldOf(key))) \notin fnChildren

\* C26: a resolver declared with both a function and a dataSource field gets a
\* new function and a new data source under the derived key and is bound to
\* that key; the data source the dataSource field names is not used.
C26_FunctionFieldWinsOverDataSourceField ==
  \A key \in TwoTokenKeys, named \in {KeyA, KeyB, HandlerPath, KeyUnknown}, scope \in Scopes :
    LET r == addResolver(Cur, scope, key, ResFunctionAndDataSource(named))
        derived == buildDataSourceKey(TypeOf(key), FieldOf(key))
    IN (phase = "ready" /\ InlineIdsFree(scope, key)) =>
         /\ r.err = ""
         /\ r.ret \in r.st.fnChildren \ fnChildren
         /\ DOMAIN r.st.dataSourcesByDsKey = DOMAIN dataSourcesByDsKey \cup {derived}
         /\ r.st.dataSourcesByDsKey[derived].variant = "Lambda"
         /\ r.st.functionsByDsKey[derived] = r.ret
         /\ r.st.dsKeysByResKey[Canonical(key)] = derived
         /\ r.st.resolversByResKey[Canonical(key)].dataSource = r.st.dataSourcesByDsKey[derived]
         /\ named \in DOMAIN dataSourcesByDsKey =>
              r.st.resolversByResKey[Canonical(key)].dataSource # dataSourcesByDsKey[named]

\* next to the DynamoDb data source A, the resolver of (Q, g) has a function
\* and a data source of its own under its derived key
C26_Witness ==
  /\ last.op = "addResolvers" /\ last.err = ""
  /\ KeyA \in DOMAIN dataSourcesByDsKey /\ dataSourcesByDsKey[KeyA].variant = "DynamoDb"
  /\ DOMAIN dsKeysByResKey = {KeyQg}
  /\ dsKeysByResKey[KeyQg] = buildDataSourceKey(<<"Q">>, <<"g">>)
  /\ resolversByResKey[KeyQg].dataSource.fn = FnHandle("stack", LambdaId(<<"Q", "_", "g">>))

\* the resolver values that carry an inline function in the current state
InlineValues ==
  {ResFunction, ResFunctionAndDataSource(KeyA)}
    \cup {ResString(str) : str \in {HandlerPath} \ DOMAIN dataSourcesByDsKey}

\* C27: adding a resolver with an inline function creates one function and one
\* Lambda data source under the derived key, records resolver key -> derived
\* key in the index, and getFunction then returns the new function for the
\* resolver key and for the derived key.
C27_InlineResolverIsFoundByBothKeys ==
  \A key \in TwoTokenKeys, value \in InlineValues, scope \in Scopes :
    LET r == addResolver(Cur, scope, key, value)
        derived == buildDataSourceKey(TypeOf(key), FieldOf(key))
    IN (phase = "ready" /\ InlineIdsFree(scope, key)) =>
         /\ r.err = ""
         /\ r.st.fnChildren = fnChildren \cup {r.ret} /\ r.ret \notin fnChildren
         /\ DOMAIN r.st.dataSourcesByDsKey = DOMAIN dataSourcesByDsKey \cup {derived}
         /\ derived \notin DOMAIN dataSourcesByDsKey
         /\ r.st.dataSourcesByDsKey[derived] = DataSource(derived, "Lambda", r.ret)
         /\ r.st.dsKeysByResKey[Canonical(key)] = derived
         /\ getFunction(r.st, derived) = r.ret
         /\ getFunction(r.st, key) = r.ret

\* the same without the lookup by the resolver key
C27_InlineResolverIsFoundByDerivedKey ==
  \A key \in TwoTokenKeys, value \in InlineValues, scope \in Scopes :
    LET r == addResolver(Cur, scope, key, value)
        derived == buildDataSourceKey(TypeOf(key), FieldOf(key))
    IN (phase = "ready" /\ InlineIdsFree(scope, key)) =>
         /\ r.err = ""
         /\ r.st.fnChildren = fnChildren \cup {r.ret} /\ r.ret \notin fnChildren
         /\ DOMAIN r.st.dataSourcesByDsKey = DOMAIN dataSourcesByDsKey \cup {derived}
         /\ derived \notin DOMAIN dataSourcesByDsKey
         /\ r.st.dataSourcesByDsKey[derived] = DataSource(derived, "Lambda", r.ret)
         /\ r.st.dsKeysByResKey[Canonical(key)] = derived
         /\ getFunction(r.st, derived) = r.ret
         /\ \A k2 \in TwoTokenKeys :
              (Canonical(k2) = Canonical(key) /\ k2 \notin DOMAIN functionsByDsKey) =>
                getFunction(r.st, k2) = r.ret

\* ------------------------------------------------------------------------
\* Derived keys and order
\* ------------------------------------------------------------------------
KeyDerivedQg == <<"L", "a", "m", "b", "d", "a", "D", "S", "_", "Q", "_", "g">>

\* the derived key of the type and field name written in a key of TwoTokenKeys
DerivedOf(key) == IF FieldOf(key) = <<"f">> THEN KeyDerivedQf ELSE KeyDerivedQg

\* C28: in every reachable state, whatever was added before and in whatever
\* order, a resolver with an inline function is bound to one and the same
\* derived key for its type and field name, under every spelling of its key
\* and for every value that carries the function.
C28_DerivedKeyDependsOnTypeAndFieldOnly ==
  \A k1 \in TwoTokenKeys, k2 \in TwoTokenKeys, v1 \in InlineValues, v2 \in InlineValues :
    LET r1 == addResolver(Cur, "stack", k1, v1)
        r2 == addResolver(Cur, "stack", k2, v2)
    IN (phase = "ready" /\ r1.err = "") =>
         /\ r1.st.dsKeysByResKey[Canonical(k1)] = DerivedOf(k1)
         /\ r1.st.dataSourcesByDsKey[DerivedOf(k1)].key = DerivedOf(k1)
         /\ (r2.err = "" /\ Canonical(k1) = Canonical(k2)) =>
              r2.st.dsKeysByResKey[Canonical(k2)] = r1.st.dsKeysByResKey[Canonical(k1)]

\* after the Lambda data source A, the inline resolver of (Q, g) is bound to
\* LambdaDS_Q_g
C28_Witness ==
  /\ last.op = "addResolvers" /\ last.err = ""
  /\ KeyA \in DOMAIN functionsByDsKey
  /\ DOMAIN dsKeysByResKey = {KeyQg}
  /\ dsKeysByResKey[KeyQg] = KeyDerivedQg
  /\ DOMAIN dataSourcesByDsKey = {KeyA, KeyDerivedQg}

\* the orders in which the entries of a batch can be processed
Orders(batch) ==
  {[i \in 1..Len(batch) |-> batch[p[i]]] :
     p \in {q \in [1..Len(batch) -> 1..Len(batch)] :
              \A i, j \in 1..Len(batch) : i # j => q[i] # q[j]}}

\* the resolver entries of the batches compared: bound by key, with a function
\* of their own, and naming the data source another resolver creates
SiblingResolverEntries ==
  PermResolverEntries
    \cup {Entry(KeyQf, ResFunction), Entry(KeyQg, ResString(KeyDerivedQf)),
          Entry(KeyQg, ResDataSource(KeyDerivedQf)), Entry(KeyQg, ResString(KeyUnknown))}

\* the keys a resolver entry refers to, and whether it refers to the data
\* source that the inline function of another entry would be registered under
RefsOf(entry) == {entry.value.str, entry.value.dataSource} \ {UndefinedStr}
DependsOn(entry, other) == DerivedOf(other.key) \in RefsOf(entry)
Independent(batch) ==
  \A i, j \in 1..Len(batch) : i # j => ~DependsOn(batch[i], batch[j])

KeysOf(batch) == {batch[i].key : i \in 1..Len(batch)}

\* C30: the api is created once, by the constructor and before the first data
\* source or resolver, also when an entry of the props fails; the data sources
\* of the props are all registered before the first resolver is processed, so a
\* resolver of the props that names a data source of the props is bound to it.
C30_ApiThenDataSourcesThenResolvers ==
  /\ phase = "new" =>
       /\ graphqlApi = 0 /\ apiChildren = {}
       /\ dataSourcesByDsKey = <<>> /\ resolversByResKey = <<>>
  /\ phase # "new" => graphqlApi = 1
  /\ phase = "new" =>
       \A props \in PropsInputs :
         LET c == constructor(Cur, props)
             st1 == createGraphApi([Cur EXCEPT !.defaultsFunction = props.defaultsFunction])
             d == constructDataSources(st1, props.dataSources, 1)
         IN /\ c.st.graphqlApi = 1
            /\ c.err # ErrNoGraphqlApi
            /\ d.err # "" =>
                 /\ c.err = d.err
                 /\ c.st.resolversByResKey = <<>> /\ c.st.dsKeysByResKey = <<>>
            /\ d.err = "" =>
                 /\ KeysOf(props.dataSources) \subseteq DOMAIN c.st.dataSourcesByDsKey
                 /\ c.err = ErrNoDataSource =>
                      \E i \in 1..Len(props.resolvers) :
                        props.resolvers[i].value.str \notin KeysOf(props.dataSources)
                 /\ c.err = "" =>
                      \A i \in 1..Len(props.resolvers) :
                        props.resolvers[i].value.str \in KeysOf(props.dataSources) =>
                          /\ c.st.dsKeysByResKey[normalizeResolverKey(props.resolvers[i].key)]
                               = props.resolvers[i].value.str
                          /\ c.st.resolversByResKey[normalizeResolverKey(props.resolvers[i].key)].dataSource
                               = d.st.dataSourcesByDsKey[props.resolvers[i].value.str]

\* the constructor registered the data source A and the resolver of (Q, f),
\* which names A
C30_Witness ==
  /\ last.op = "constructor" /\ last.err = ""
  /\ graphqlApi = 1
  /\ DOMAIN dataSourcesByDsKey = {KeyA}
  /\ DOMAIN dsKeysByResKey = {KeyQf} /\ dsKeysByResKey[KeyQf] = KeyA
  /\ resolversByResKey[KeyQf].dataSource = dataSourcesByDsKey[KeyA]

\* ------------------------------------------------------------------------
\* Mapping templates
\* ------------------------------------------------------------------------
\* what a resolver added with the two mappings holds as its templates
TemplatesOf(st, key) ==
  <<st.resolversByResKey[key].requestMappingTemplate,
    st.resolversByResKey[key].responseMappingTemplate>>

\* C31: a mapping with both file and inline, or with neither, is rejected and
\* the resolver that carries it is not added; a mapping with exactly one of
\* them gives a template, and an absent mapping gives none.
C31_TemplateNeedsExactlyOneSource ==
  \A key \in {KeyQf, KeyQg}, request \in MappingInputs, scope \in Scopes :
    LET r == addResolver(Cur, scope, key, ResDataSourceMapped(KeyA, request, "absent")) IN
    (phase = "ready" /\ ResolverId(TypeOf(key), FieldOf(key)) \notin apiChildren) =>
      /\ request \in {"fileAndInline", "neither"} =>
           /\ r.err # ""
           /\ r.st.resolversByResKey = resolversByResKey
      /\ request = "file" => r.err = "" /\ TemplatesOf(r.st, key) = <<"fromFile", "none">>
      /\ request = "inline" => r.err = "" /\ TemplatesOf(r.st, key) = <<"fromString", "none">>
      /\ request = "absent" => r.err = "" /\ TemplatesOf(r.st, key) = <<"none", "none">>

\* the same without the two rejections
C31_OneSourceGivesTemplate ==
  \A key \in {KeyQf, KeyQg}, request \in MappingInputs, scope \in Scopes :
    LET r == addResolver(Cur, scope, key, ResDataSourceMapped(KeyA, request, "absent")) IN
    (phase = "ready" /\ ResolverId(TypeOf(key), FieldOf(key)) \notin apiChildren) =>
      /\ request = "fileAndInline" =>
           r.err = "" /\ TemplatesOf(r.st, key) = <<"fromFile", "none">>
      /\ request = "neither" =>
           r.err = "" /\ TemplatesOf(r.st, key) = <<"fromString(undefined)", "none">>
      /\ request = "unreadableFile" => r.err = ErrTemplateFile
      /\ request = "file" => r.err = "" /\ TemplatesOf(r.st, key) = <<"fromFile", "none">>
      /\ request = "inline" => r.err = "" /\ TemplatesOf(r.st, key) = <<"fromString", "none">>
      /\ request = "absent" => r.err = "" /\ TemplatesOf(r.st, key) = <<"none", "none">>

\* ------------------------------------------------------------------------
\* A function passed in next to defaults.function
\* ------------------------------------------------------------------------
\* C32: when defaults.function is set, a data source or a resolver declared
\* with a Fn that is already built fails with the error of that conflict and
\* changes nothing: no data source, no function, no resolver, no construct.
\* Without defaults.function the same declaration does not fail that way.
C32_PrebuiltFunctionConflictsWithDefaults ==
  phase = "ready" =>
    /\ \A dsKey \in {KeyA, KeyB, KeyUnknown}, v \in {DsPrebuilt, DsPrebuiltSelf}, scope \in AllScopes :
         LET r == addDataSource(Cur, scope, dsKey, v)
             b == addDataSources(Cur, scope, <<Entry(dsKey, v)>>)
         IN IF defaultsFunction
            THEN /\ r.err = ErrDefaultsWithFn /\ r.st = Cur
                 /\ b.err = ErrDefaultsWithFn /\ b.st = Cur
            ELSE r.err # ErrDefaultsWithFn
    /\ \A key \in TwoTokenKeys, v \in {ResPrebuilt, ResPrebuiltSelf}, scope \in AllScopes :
         LET r == addResolver(Cur, scope, key, v)
             b == addResolvers(Cur, scope, <<Entry(key, v)>>)
         IN IF defaultsFunction
            THEN /\ r.err = ErrDefaultsWithFn /\ r.st = Cur
                 /\ b.err = ErrDefaultsWithFn /\ b.st = Cur
            ELSE r.err # ErrDefaultsWithFn

\* with defaults.function set and a data source A registered, a declaration
\* with a Fn was rejected
C32_Witness ==
  /\ defaultsFunction /\ phase = "ready"
  /\ last.err = ErrDefaultsWithFn
  /\ KeyA \in DOMAIN dataSourcesByDsKey
  /\ \A dsKey \in DOMAIN functionsByDsKey : functionsByDsKey[dsKey] \notin Prebuilt

\* ------------------------------------------------------------------------
\* The resolver registry and the resolver key index
\* ------------------------------------------------------------------------
\* C33: in every state, also after an add call that failed part-way, the
\* resolver key index and the resolver registry have the same keys.
C33_IndexAndRegistryHaveSameKeys ==
  DOMAIN dsKeysByResKey = DOMAIN resolversByResKey

====
